---- MODULE Spec2Model ----
(***************************************************************************)
(* State-machine model of the antigen-wgpu resource lifecycle core:        *)
(* lazy resource cells, changed flags, usage tags, indirect components,    *)
(* the resource creation systems and the direct write systems.             *)
(*                                                                         *)
(* The legion world is the variable `world`: a map from entity to the      *)
(* components the entity holds, keyed by <<usage tag, component type>>.    *)
(* A system's query matches an entity exactly when the entity holds every  *)
(* component the system's signature names.                                 *)
(***************************************************************************)
EXTENDS Integers, Sequences, FiniteSets, TLC

VARIABLES
    world,       \* entity -> (component key -> component value)
    singletons,  \* which of Device / Queue / Adapter / Instance the world holds
    panicked,    \* TRUE once a system has panicked (unwrap on None)
    manager,     \* the StagingBeltManager's map: belt id -> belt
    id_head,     \* STAGING_BELT_ID_HEAD
    callers,     \* threads calling create_staging_belt themselves, and their manager
    passes,      \* system bodies run one lock operation at a time, and what they did
    last         \* the system run that produced this state, with the world before it

vars == <<world, singletons, panicked, manager, id_head, callers, passes, last>>

----------------------------------------------------------------------------
(* Bounds *)

NumEntities == 2      \* entities 1..NumEntities
MaxVal == 1           \* descriptor contents and tracked data range over 0..MaxVal
MaxDim == 1           \* texture extents range over 0..MaxDim
MaxQueue == 2         \* a CommandBuffersComponent holds at most MaxQueue buffers
NumThreads == 2       \* threads 1..NumThreads call create_staging_belt themselves
MaxIds == 3           \* no call is entered once MaxIds ids are taken or about to be

Entities == 1..NumEntities
Vals == 0..MaxVal
Dims == 0..MaxDim

----------------------------------------------------------------------------
(* Component keys: Usage<U, C> is the pair <<U, C>>; an untagged component  *)
(* C is <<NoUsage, C>>.  IndirectComponent<X> is keyed by Indirect(X).     *)

NoUsage == "_"
FrontBuffer == "FrontBuffer"
BackBuffer == "BackBuffer"
Uniform == "Uniform"
Usages == {FrontBuffer, BackBuffer, Uniform}

Usage(u, c) == <<u, c>>
Untagged(c) == <<NoUsage, c>>
Indirect(k) == <<k[1], "Indirect", k[2]>>

Has(w, e, k) == k \in DOMAIN w[e]

----------------------------------------------------------------------------
(* LazyComponent<T>: Pending | Ready(T) | Dropped *)

Pending == [st |-> "Pending"]
Dropped == [st |-> "Dropped"]
Ready(v) == [st |-> "Ready", v |-> v]

is_pending(cell) == cell.st = "Pending"
is_ready(cell) == cell.st = "Ready"
set_ready(cell, v) == Ready(v)
set_dropped(cell) == Dropped

(* Changed<T>: a value with a changed flag *)
Changed(val, flag) == [val |-> val, changed |-> flag]
get_changed(c) == c.changed
set_changed(c, flag) == [c EXCEPT !.changed = flag]

----------------------------------------------------------------------------
(* The record of a system run *)

InitRun(w) ==
    [op |-> "init", e |-> 0, u |-> NoUsage, calls |-> 0, writes |-> {},
     sets |-> <<>>, panic |-> FALSE, rep |-> [is |-> FALSE], pre |-> w]

(* no system body is run step by step *)
NoPasses == [run |-> <<>>, log |-> <<>>]

(* rep: whether the previous run was the same system on the same entity    *)
(* and usage and, when it was, that run's calls, writes and starting world. *)
Run(op, e, u, calls, writes, sets, panic) ==
    [op |-> op, e |-> e, u |-> u, calls |-> calls, writes |-> writes,
     sets |-> sets, panic |-> panic,
     rep |-> IF last.op = op /\ last.e = e /\ last.u = u /\ ~last.panic
             THEN [is |-> TRUE, calls |-> last.calls, writes |-> last.writes,
                   pre |-> last.pre]
             ELSE [is |-> FALSE],
     pre |-> world]

(* a run whose predecessor is not recorded *)
Ran(op, e, u, calls, writes, sets, panic) ==
    [op |-> op, e |-> e, u |-> u, calls |-> calls, writes |-> writes,
     sets |-> sets, panic |-> panic, rep |-> [is |-> FALSE], pre |-> world]

(* a producer step: not a run of a system of the core *)
Produced(op, e, u) ==
    [op |-> op, e |-> e, u |-> u, calls |-> 0, writes |-> {}, sets |-> <<>>,
     panic |-> FALSE, rep |-> [is |-> FALSE], pre |-> world]

SetCall(call, e, k) == [call |-> call, e |-> e, k |-> k, from |-> world[e][k].st]

NoOp(op, e, u) ==
    /\ world' = world
    /\ last' = Run(op, e, u, 0, {}, <<>>, FALSE)
    /\ UNCHANGED <<singletons, panicked, manager, id_head, callers, passes>>

Panic(op, e, u) ==
    /\ panicked' = TRUE
    /\ world' = world
    /\ last' = Run(op, e, u, 0, {}, <<>>, TRUE)
    /\ UNCHANGED <<singletons, manager, id_head, callers, passes>>

----------------------------------------------------------------------------
(* Resource creation systems.  Each one is the per-entity body of a        *)
(* par_for_each system; the query matches when the entity holds both the   *)
(* descriptor component dk and the resource component rk.                  *)

Create(op, e, u, dk, rk) ==
    /\ ~panicked
    /\ Has(world, e, dk) /\ Has(world, e, rk)
    /\ IF ~is_pending(world[e][rk]) /\ ~get_changed(world[e][dk])
       THEN NoOp(op, e, u)
       ELSE IF "Device" \notin singletons
       THEN Panic(op, e, u)
       ELSE /\ world' = [world EXCEPT
                   ![e][rk] = set_ready(@, world[e][dk].val),
                   ![e][dk] = set_changed(@, FALSE)]
            /\ last' = Run(op, e, u, 1, {}, <<SetCall("set_ready", e, rk)>>, FALSE)
            /\ UNCHANGED <<singletons, panicked, manager, id_head, callers, passes>>

(* faulty create_shader_modules: creates on every run *)
create_shader_modules_every_run(e) ==
    LET dk == Untagged("ShaderModuleDescriptor")
        rk == Untagged("ShaderModule")
    IN
    /\ ~panicked
    /\ Has(world, e, dk) /\ Has(world, e, rk)
    /\ world' = [world EXCEPT ![e][rk] = set_ready(@, world[e][dk].val),
                              ![e][dk] = set_changed(@, FALSE)]
    /\ last' = Run("create_shader_modules", e, NoUsage, 1, {},
                   <<SetCall("set_ready", e, rk)>>, FALSE)
    /\ UNCHANGED <<singletons, panicked, manager, id_head, callers, passes>>

create_shader_modules(e) ==
    Create("create_shader_modules", e, NoUsage,
           Untagged("ShaderModuleDescriptor"), Untagged("ShaderModule"))

create_shader_modules_with_usage(e, u) ==
    Create("create_shader_modules_with_usage", e, u,
           Usage(u, "ShaderModuleDescriptor"), Usage(u, "ShaderModule"))

create_shader_modules_spirv(e) ==
    Create("create_shader_modules_spirv", e, NoUsage,
           Untagged("ShaderModuleDescriptorSpirV"), Untagged("ShaderModule"))

create_shader_modules_usage_spirv(e, u) ==
    Create("create_shader_modules_usage_spirv", e, u,
           Usage(u, "ShaderModuleDescriptorSpirV"), Usage(u, "ShaderModule"))

(* faulty create_buffers: leaves the descriptor's changed flag set *)
create_buffers_keeps_flag(e, u) ==
    LET dk == Usage(u, "BufferDescriptor")
        rk == Usage(u, "Buffer")
    IN
    /\ ~panicked
    /\ Has(world, e, dk) /\ Has(world, e, rk)
    /\ IF ~is_pending(world[e][rk]) /\ ~get_changed(world[e][dk])
       THEN NoOp("create_buffers", e, u)
       ELSE /\ world' = [world EXCEPT ![e][rk] = set_ready(@, world[e][dk].val)]
            /\ last' = Run("create_buffers", e, u, 1, {},
                           <<SetCall("set_ready", e, rk)>>, FALSE)
            /\ UNCHANGED <<singletons, panicked, manager, id_head, callers, passes>>

(* faulty create_buffers: every instantiation works on the FrontBuffer slot *)
create_buffers_ignores_usage(e, u) ==
    Create("create_buffers", e, u,
           Usage(FrontBuffer, "BufferDescriptor"), Usage(FrontBuffer, "Buffer"))

create_buffers(e, u) ==
    Create("create_buffers", e, u, Usage(u, "BufferDescriptor"), Usage(u, "Buffer"))

create_buffers_init(e, u) ==
    Create("create_buffers_init", e, u,
           Usage(u, "BufferInitDescriptor"), Usage(u, "Buffer"))

(* faulty create_samplers: recreates whenever the cell is not Pending *)
create_samplers_every_run(e) ==
    LET dk == Untagged("SamplerDescriptor")
        rk == Untagged("Sampler")
    IN
    /\ ~panicked
    /\ Has(world, e, dk) /\ Has(world, e, rk)
    /\ world' = [world EXCEPT ![e][rk] = set_ready(@, world[e][dk].val),
                              ![e][dk] = set_changed(@, FALSE)]
    /\ last' = Run("create_samplers", e, NoUsage, 1, {},
                   <<SetCall("set_ready", e, rk)>>, FALSE)
    /\ UNCHANGED <<singletons, panicked, manager, id_head, callers, passes>>

create_samplers(e) ==
    Create("create_samplers", e, NoUsage,
           Untagged("SamplerDescriptor"), Untagged("Sampler"))

create_samplers_with_usage(e, u) ==
    Create("create_samplers_with_usage", e, u,
           Usage(u, "SamplerDescriptor"), Usage(u, "Sampler"))

----------------------------------------------------------------------------
(* Indirect components.  IndirectComponent<C> on entity e names the entity *)
(* that owns the real C; get_indirect looks C up on that entity.           *)

Resolves(e, k) == Has(world, world[e][Indirect(k)], k)
get_indirect(e, k) == world[world[e][Indirect(k)]][k]

(* ToBytes: the value's bytes, low byte first *)
to_bytes(v) == <<v % 256, (v \div 256) % 256>>

DataKey == Untagged("Data")

----------------------------------------------------------------------------
(* Direct writes.  buffer_write<T, L, V> is one whole system run: the      *)
(* queue lookup, then the closure on every matching entity.                *)

BufferWriteMatches(u) ==
    {e \in Entities :
        /\ Has(world, e, Usage(u, "BufferWrite"))
        /\ Has(world, e, DataKey)
        /\ Has(world, e, Indirect(Usage(u, "Buffer")))}

(* the entities on which the closure issues a write *)
(* faulty BufferWriteWrites: writes whatever the state of the buffer cell *)
BufferWriteWritesUnready(u, es) ==
    {e \in es : get_changed(world[e][DataKey])}

(* faulty BufferWriteWrites: looks at the writer's own buffer cell *)
BufferWriteWritesOwn(u, es) ==
    {e \in es :
        /\ get_changed(world[e][DataKey])
        /\ Has(world, e, Usage(u, "Buffer"))
        /\ is_ready(world[e][Usage(u, "Buffer")])}

BufferWriteWrites(u, es) ==
    {e \in es :
        /\ get_changed(world[e][DataKey])
        /\ is_ready(get_indirect(e, Usage(u, "Buffer")))}

(* faulty BufferWriteCall: writes at the start of the buffer *)
BufferWriteCallAtStart(u, e) ==
    [src |-> e,
     dst |-> world[e][Indirect(Usage(u, "Buffer"))],
     k |-> Usage(u, "Buffer"),
     offset |-> 0,
     bytes |-> to_bytes(world[e][DataKey].val)]

BufferWriteCall(u, e) ==
    [src |-> e,
     dst |-> world[e][Indirect(Usage(u, "Buffer"))],
     k |-> Usage(u, "Buffer"),
     offset |-> world[e][Usage(u, "BufferWrite")],
     bytes |-> to_bytes(world[e][DataKey].val)]

(* faulty buffer_write: leaves the data's changed flag set *)
buffer_write_keeps_flag(u) ==
    /\ ~panicked
    /\ BufferWriteMatches(u) # {}
    /\ LET m == BufferWriteMatches(u)
           ok == {e \in m : Resolves(e, Usage(u, "Buffer"))}
       IN  \E done \in SUBSET ok :
             /\ (ok = m) => (done = ok)
             /\ world' = world
             /\ last' = Run("buffer_write", 0, u, 0,
                            {BufferWriteCall(u, e) : e \in BufferWriteWrites(u, done)},
                            <<>>, ok # m)
             /\ panicked' = (ok # m)
             /\ UNCHANGED <<singletons, manager, id_head, callers, passes>>

buffer_write(u) ==
    /\ ~panicked
    /\ BufferWriteMatches(u) # {}
    /\ IF "Queue" \notin singletons
       THEN NoOp("buffer_write", 0, u)
       ELSE LET m == BufferWriteMatches(u)
                ok == {e \in m : Resolves(e, Usage(u, "Buffer"))}
            IN  \E done \in SUBSET ok :
                  /\ (ok = m) => (done = ok)
                  /\ LET w == BufferWriteWrites(u, done) IN
                     /\ world' = [e \in Entities |->
                            IF e \in w
                            THEN [world[e] EXCEPT ![DataKey] = set_changed(@, FALSE)]
                            ELSE world[e]]
                     /\ last' = Run("buffer_write", 0, u, 0,
                                    {BufferWriteCall(u, e) : e \in w}, <<>>, ok # m)
                     /\ panicked' = (ok # m)
                     /\ UNCHANGED <<singletons, manager, id_head, callers, passes>>

----------------------------------------------------------------------------
(* Textures and texture views *)

Extent3d(w, h, d) == [width |-> w, height |-> h, depth_or_array_layers |-> d]

(* faulty create_textures: no check of the descriptor's extent *)
create_textures_unguarded(e, u) ==
    LET dk == Usage(u, "TextureDescriptor")
        rk == Usage(u, "Texture")
    IN
    /\ ~panicked
    /\ Has(world, e, dk) /\ Has(world, e, rk)
    /\ IF ~is_pending(world[e][rk]) /\ ~get_changed(world[e][dk])
       THEN NoOp("create_textures", e, u)
       ELSE /\ world' = [world EXCEPT
                   ![e][rk] = set_ready(@, [size |-> world[e][dk].val]),
                   ![e][dk] = set_changed(@, FALSE)]
            /\ last' = Run("create_textures", e, u, 1, {},
                           <<SetCall("set_ready", e, rk)>>, FALSE)
            /\ UNCHANGED <<singletons, panicked, manager, id_head, callers, passes>>

create_textures(e, u) ==
    LET dk == Usage(u, "TextureDescriptor")
        rk == Usage(u, "Texture")
    IN
    /\ ~panicked
    /\ Has(world, e, dk) /\ Has(world, e, rk)
    /\ IF ~is_pending(world[e][rk]) /\ ~get_changed(world[e][dk])
       THEN NoOp("create_textures", e, u)
       ELSE IF \/ world[e][dk].val.width = 0
               \/ world[e][dk].val.height = 0
               \/ world[e][dk].val.depth_or_array_layers = 0
       THEN NoOp("create_textures", e, u)
       ELSE IF "Device" \notin singletons
       THEN Panic("create_textures", e, u)
       ELSE /\ world' = [world EXCEPT
                   ![e][rk] = set_ready(@, [size |-> world[e][dk].val]),
                   ![e][dk] = set_changed(@, FALSE)]
            /\ last' = Run("create_textures", e, u, 1, {},
                           <<SetCall("set_ready", e, rk)>>, FALSE)
            /\ UNCHANGED <<singletons, panicked, manager, id_head, callers, passes>>

(* faulty create_texture_views: clears the descriptor's changed flag while *)
(* the texture is not Ready                                                *)
create_texture_views_consumes_flag(e, u) ==
    LET tk == Usage(u, "Texture")
        dk == Usage(u, "TextureViewDescriptor")
        rk == Usage(u, "TextureView")
    IN
    /\ ~panicked
    /\ Has(world, e, Indirect(tk)) /\ Has(world, e, dk) /\ Has(world, e, rk)
    /\ IF ~is_pending(world[e][rk]) /\ ~get_changed(world[e][dk])
       THEN NoOp("create_texture_views", e, u)
       ELSE IF ~Resolves(e, tk)
       THEN Panic("create_texture_views", e, u)
       ELSE IF ~is_ready(get_indirect(e, tk))
       THEN /\ world' = [world EXCEPT ![e][dk] = set_changed(@, FALSE)]
            /\ last' = Run("create_texture_views", e, u, 0, {}, <<>>, FALSE)
            /\ UNCHANGED <<singletons, panicked, manager, id_head, callers, passes>>
       ELSE /\ world' = [world EXCEPT
                   ![e][rk] = set_ready(@, [desc |-> world[e][dk].val,
                                            of |-> get_indirect(e, tk).v]),
                   ![e][dk] = set_changed(@, FALSE)]
            /\ last' = Run("create_texture_views", e, u, 1, {},
                           <<SetCall("set_ready", e, rk)>>, FALSE)
            /\ UNCHANGED <<singletons, panicked, manager, id_head, callers, passes>>

create_texture_views(e, u) ==
    LET tk == Usage(u, "Texture")
        dk == Usage(u, "TextureViewDescriptor")
        rk == Usage(u, "TextureView")
    IN
    /\ ~panicked
    /\ Has(world, e, Indirect(tk)) /\ Has(world, e, dk) /\ Has(world, e, rk)
    /\ IF ~is_pending(world[e][rk]) /\ ~get_changed(world[e][dk])
       THEN NoOp("create_texture_views", e, u)
       ELSE IF ~Resolves(e, tk)
       THEN Panic("create_texture_views", e, u)
       ELSE IF ~is_ready(get_indirect(e, tk))
       THEN NoOp("create_texture_views", e, u)
       ELSE /\ world' = [world EXCEPT
                   ![e][rk] = set_ready(@, [desc |-> world[e][dk].val,
                                            of |-> get_indirect(e, tk).v]),
                   ![e][dk] = set_changed(@, FALSE)]
            /\ last' = Run("create_texture_views", e, u, 1, {},
                           <<SetCall("set_ready", e, rk)>>, FALSE)
            /\ UNCHANGED <<singletons, panicked, manager, id_head, callers, passes>>

(* texture_write<T, L, V>: one whole system run *)
TextureWriteMatches(u) ==
    {e \in Entities :
        /\ Has(world, e, Usage(u, "TextureWrite"))
        /\ Has(world, e, DataKey)
        /\ Has(world, e, Indirect(Usage(u, "TextureDescriptor")))
        /\ Has(world, e, Indirect(Usage(u, "Texture")))}

TextureWriteWrites(u, es) ==
    {e \in es :
        /\ get_changed(world[e][DataKey])
        /\ is_ready(get_indirect(e, Usage(u, "Texture")))}

TextureWriteCall(u, e) ==
    [src |-> e,
     dst |-> world[e][Indirect(Usage(u, "Texture"))],
     k |-> Usage(u, "Texture"),
     offset |-> world[e][Usage(u, "TextureWrite")],
     bytes |-> to_bytes(world[e][DataKey].val),
     texture |-> get_indirect(e, Usage(u, "Texture")).v,
     extent |-> get_indirect(e, Usage(u, "TextureDescriptor")).val]

texture_write(u) ==
    /\ ~panicked
    /\ TextureWriteMatches(u) # {}
    /\ IF "Queue" \notin singletons
       THEN NoOp("texture_write", 0, u)
       ELSE LET m == TextureWriteMatches(u)
                ok == {e \in m : /\ Resolves(e, Usage(u, "TextureDescriptor"))
                                 /\ Resolves(e, Usage(u, "Texture"))}
            IN  \E done \in SUBSET ok :
                  /\ (ok = m) => (done = ok)
                  /\ LET w == TextureWriteWrites(u, done) IN
                     /\ world' = [e \in Entities |->
                            IF e \in w
                            THEN [world[e] EXCEPT ![DataKey] = set_changed(@, FALSE)]
                            ELSE world[e]]
                     /\ last' = Run("texture_write", 0, u, 0,
                                    {TextureWriteCall(u, e) : e \in w}, <<>>, ok # m)
                     /\ panicked' = (ok # m)
                     /\ UNCHANGED <<singletons, manager, id_head, callers, passes>>

----------------------------------------------------------------------------
(* Window surfaces, surface textures and the render attachment view *)

RenderAttachment == "RenderAttachment"
WindowKey == Untagged("Window")
WindowSizeKey == Untagged("WindowSize")
SurfaceConfigurationKey == Untagged("SurfaceConfiguration")
SurfaceKey == Untagged("Surface")
SurfaceTextureKey == Untagged("SurfaceTexture")
RenderAttachmentTextureViewDescriptor == Usage(RenderAttachment, "TextureViewDescriptor")
RenderAttachmentTextureView == Usage(RenderAttachment, "TextureView")

(* the size a window reports and a surface is configured with: 0 or positive *)
WindowDims == {0, 1}
SurfaceDefaultSize == 100

Size2d(w, h) == [width |-> w, height |-> h]

(* window.inner_size(): the size the window's size component mirrors *)
inner_size(w, e) ==
    IF Has(w, e, WindowSizeKey) THEN w[e][WindowSizeKey].val ELSE Size2d(1, 1)

(* faulty create_window_surfaces: creates whatever the surface cell holds *)
create_window_surfaces_every_run(e, compatible) ==
    /\ ~panicked
    /\ Has(world, e, WindowKey) /\ Has(world, e, SurfaceConfigurationKey)
    /\ Has(world, e, SurfaceKey)
    /\ IF ~is_ready(world[e][WindowKey])
       THEN NoOp("create_window_surfaces", e, NoUsage)
       ELSE /\ world' = [world EXCEPT
                   ![e][SurfaceConfigurationKey].val = inner_size(world, e),
                   ![e][SurfaceKey] = set_ready(@, [surface |-> e])]
            /\ last' = Run("create_window_surfaces", e, NoUsage, 1,
                           {[configure |-> inner_size(world, e)]},
                           <<SetCall("set_ready", e, SurfaceKey)>>, FALSE)
            /\ UNCHANGED <<singletons, panicked, manager, id_head, callers, passes>>

(* compatible: whether surface.get_preferred_format(adapter) is Some; the  *)
(* expect on it fails after the surface was created and the size written   *)
create_window_surfaces(e, compatible) ==
    /\ ~panicked
    /\ Has(world, e, WindowKey) /\ Has(world, e, SurfaceConfigurationKey)
    /\ Has(world, e, SurfaceKey)
    /\ IF ~is_ready(world[e][WindowKey])
       THEN NoOp("create_window_surfaces", e, NoUsage)
       ELSE IF "Adapter" \notin singletons \/ "Device" \notin singletons
       THEN Panic("create_window_surfaces", e, NoUsage)
       ELSE IF ~is_pending(world[e][SurfaceKey])
       THEN NoOp("create_window_surfaces", e, NoUsage)
       ELSE IF "Instance" \notin singletons
       THEN Panic("create_window_surfaces", e, NoUsage)
       ELSE IF ~compatible
       THEN /\ world' = [world EXCEPT
                   ![e][SurfaceConfigurationKey].val = inner_size(world, e)]
            /\ panicked' = TRUE
            /\ last' = Run("create_window_surfaces", e, NoUsage, 1, {}, <<>>, TRUE)
            /\ UNCHANGED <<singletons, manager, id_head, callers, passes>>
       ELSE /\ world' = [world EXCEPT
                   ![e][SurfaceConfigurationKey].val = inner_size(world, e),
                   ![e][SurfaceKey] = set_ready(@, [surface |-> e])]
            /\ last' = Run("create_window_surfaces", e, NoUsage, 1,
                           {[configure |-> inner_size(world, e)]},
                           <<SetCall("set_ready", e, SurfaceKey)>>, FALSE)
            /\ UNCHANGED <<singletons, panicked, manager, id_head, callers, passes>>

reconfigure_surfaces(e) ==
    /\ ~panicked
    /\ Has(world, e, SurfaceConfigurationKey) /\ Has(world, e, SurfaceKey)
    /\ IF "Device" \notin singletons
       THEN Panic("reconfigure_surfaces", e, NoUsage)
       ELSE /\ world' = world
            /\ last' = Run("reconfigure_surfaces", e, NoUsage, 0,
                  IF /\ is_ready(world[e][SurfaceKey])
                     /\ get_changed(world[e][SurfaceConfigurationKey])
                     /\ world[e][SurfaceConfigurationKey].val.width > 0
                     /\ world[e][SurfaceConfigurationKey].val.height > 0
                  THEN {[configure |-> world[e][SurfaceConfigurationKey].val]}
                  ELSE {},
                  <<>>, FALSE)
            /\ UNCHANGED <<singletons, panicked, manager, id_head, callers, passes>>

(* faulty reset_surface_config_changed: leaves the flag as it is *)
reset_surface_config_changed_keeps(e) ==
    /\ ~panicked
    /\ Has(world, e, SurfaceConfigurationKey)
    /\ world' = world
    /\ last' = Run("reset_surface_config_changed", e, NoUsage, 0, {}, <<>>, FALSE)
    /\ UNCHANGED <<singletons, panicked, manager, id_head, callers, passes>>

reset_surface_config_changed(e) ==
    /\ ~panicked
    /\ Has(world, e, SurfaceConfigurationKey)
    /\ world' = IF get_changed(world[e][SurfaceConfigurationKey])
                THEN [world EXCEPT ![e][SurfaceConfigurationKey] = set_changed(@, FALSE)]
                ELSE world
    /\ last' = Run("reset_surface_config_changed", e, NoUsage, 0, {}, <<>>, FALSE)
    /\ UNCHANGED <<singletons, panicked, manager, id_head, callers, passes>>

(* surface_texture_query as a function of the world; acquired is whether   *)
(* surface.get_current_texture() returns Ok                                *)
(* faulty: a failed acquisition forgets the texture without flagging it *)
SurfaceTextureQueryUnflagged(w, e, acquired) ==
    IF ~(Has(w, e, SurfaceKey) /\ Has(w, e, SurfaceTextureKey)) THEN w
    ELSE IF ~is_ready(w[e][SurfaceKey]) THEN w
    ELSE IF acquired
    THEN [w EXCEPT ![e][SurfaceTextureKey] = Changed("Some", TRUE)]
    ELSE [w EXCEPT ![e][SurfaceTextureKey] = Changed("None", w[e][SurfaceTextureKey].changed)]

SurfaceTextureQuery(w, e, acquired) ==
    IF ~(Has(w, e, SurfaceKey) /\ Has(w, e, SurfaceTextureKey)) THEN w
    ELSE IF ~is_ready(w[e][SurfaceKey]) THEN w
    ELSE IF acquired
    THEN [w EXCEPT ![e][SurfaceTextureKey] = Changed("Some", TRUE)]
    ELSE IF w[e][SurfaceTextureKey].val # "None"
    THEN [w EXCEPT ![e][SurfaceTextureKey] = Changed("None", TRUE)]
    ELSE w

SurfaceTextureViewQueryMatches(w, e) ==
    /\ Has(w, e, SurfaceTextureKey)
    /\ Has(w, e, RenderAttachmentTextureViewDescriptor)
    /\ Has(w, e, RenderAttachmentTextureView)

(* surface_texture_view_query as a function of the world *)
SurfaceTextureViewQuery(w, e) ==
    IF ~SurfaceTextureViewQueryMatches(w, e) THEN w
    ELSE IF ~get_changed(w[e][SurfaceTextureKey]) THEN w
    ELSE IF w[e][SurfaceTextureKey].val # "None"
    THEN [w EXCEPT
            ![e][RenderAttachmentTextureView] =
                set_ready(@, [desc |-> w[e][RenderAttachmentTextureViewDescriptor].val]),
            ![e][SurfaceTextureKey] = set_changed(@, FALSE)]
    ELSE [w EXCEPT
            ![e][RenderAttachmentTextureView] = set_dropped(@),
            ![e][SurfaceTextureKey] = set_changed(@, FALSE)]

(* the lazy cell calls surface_texture_view_query makes on the world w *)
SurfaceTextureViewQuerySets(w, e) ==
    IF ~SurfaceTextureViewQueryMatches(w, e) THEN <<>>
    ELSE IF ~get_changed(w[e][SurfaceTextureKey]) THEN <<>>
    ELSE <<[call |-> IF w[e][SurfaceTextureKey].val # "None"
                     THEN "set_ready" ELSE "set_dropped",
            e |-> e, k |-> RenderAttachmentTextureView,
            from |-> w[e][RenderAttachmentTextureView].st]>>

surface_texture_query(e, acquired) ==
    /\ ~panicked
    /\ Has(world, e, SurfaceKey) /\ Has(world, e, SurfaceTextureKey)
    /\ world' = SurfaceTextureQuery(world, e, acquired)
    /\ last' = Run("surface_texture_query", e, NoUsage, 0, {}, <<>>, FALSE)
    /\ UNCHANGED <<singletons, panicked, manager, id_head, callers, passes>>

surface_texture_view_query(e) ==
    /\ ~panicked
    /\ SurfaceTextureViewQueryMatches(world, e)
    /\ world' = SurfaceTextureViewQuery(world, e)
    /\ last' = Run("surface_texture_view_query", e, NoUsage,
                   IF \E i \in 1..Len(SurfaceTextureViewQuerySets(world, e)) :
                        SurfaceTextureViewQuerySets(world, e)[i].call = "set_ready"
                   THEN 1 ELSE 0,
                   {}, SurfaceTextureViewQuerySets(world, e), FALSE)
    /\ UNCHANGED <<singletons, panicked, manager, id_head, callers, passes>>

(* surface_textures_views: the window event names entity e, or no window *)
(* (e = 0) and the system panics                                          *)
surface_textures_views(e, acquired) ==
    /\ ~panicked
    /\ \E w \in Entities : Has(world, w, SurfaceTextureKey)
    /\ e \in Entities => Has(world, e, SurfaceTextureKey)
    /\ IF e \notin Entities
       THEN Panic("surface_textures_views", 0, NoUsage)
       ELSE LET w1 == SurfaceTextureQuery(world, e, acquired) IN
            /\ world' = SurfaceTextureViewQuery(w1, e)
            /\ last' = Run("surface_textures_views", e, NoUsage,
                   IF \E i \in 1..Len(SurfaceTextureViewQuerySets(w1, e)) :
                        SurfaceTextureViewQuerySets(w1, e)[i].call = "set_ready"
                   THEN 1 ELSE 0,
                   {}, SurfaceTextureViewQuerySets(w1, e), FALSE)
            /\ UNCHANGED <<singletons, panicked, manager, id_head, callers, passes>>

surface_size(e) ==
    /\ ~panicked
    /\ Has(world, e, WindowSizeKey) /\ Has(world, e, SurfaceConfigurationKey)
    /\ world' = IF get_changed(world[e][WindowSizeKey])
                THEN [world EXCEPT ![e][SurfaceConfigurationKey] =
                                       Changed(world[e][WindowSizeKey].val, TRUE)]
                ELSE world
    /\ last' = Run("surface_size", e, NoUsage, 0, {}, <<>>, FALSE)
    /\ UNCHANGED <<singletons, panicked, manager, id_head, callers, passes>>

(* faulty surface_texture_present: presents the texture and keeps it stored *)
surface_texture_present_keeps(e) ==
    /\ ~panicked
    /\ Has(world, e, SurfaceTextureKey)
    /\ IF world[e][SurfaceTextureKey].val # "None"
       THEN /\ world' = [world EXCEPT ![e][SurfaceTextureKey] = set_changed(@, TRUE)]
            /\ last' = Run("surface_texture_present", e, NoUsage, 0,
                           {[present |-> world[e][SurfaceTextureKey].val]}, <<>>, FALSE)
            /\ UNCHANGED <<singletons, panicked, manager, id_head, callers, passes>>
       ELSE NoOp("surface_texture_present", e, NoUsage)

surface_texture_present(e) ==
    /\ ~panicked
    /\ Has(world, e, SurfaceTextureKey)
    /\ IF world[e][SurfaceTextureKey].val # "None"
       THEN /\ world' = [world EXCEPT ![e][SurfaceTextureKey] = Changed("None", TRUE)]
            /\ last' = Run("surface_texture_present", e, NoUsage, 0,
                           {[present |-> world[e][SurfaceTextureKey].val]}, <<>>, FALSE)
            /\ UNCHANGED <<singletons, panicked, manager, id_head, callers, passes>>
       ELSE NoOp("surface_texture_present", e, NoUsage)

(* faulty surface_texture_view_drop: resets the view to Pending *)
surface_texture_view_drop_resets(e) ==
    /\ ~panicked
    /\ Has(world, e, SurfaceTextureKey) /\ Has(world, e, RenderAttachmentTextureView)
    /\ IF ~get_changed(world[e][SurfaceTextureKey])
       THEN NoOp("surface_texture_view_drop", e, NoUsage)
       ELSE IF world[e][SurfaceTextureKey].val # "None"
       THEN NoOp("surface_texture_view_drop", e, NoUsage)
       ELSE /\ world' = [world EXCEPT
                   ![e][RenderAttachmentTextureView] = Pending,
                   ![e][SurfaceTextureKey] = set_changed(@, FALSE)]
            /\ last' = Run("surface_texture_view_drop", e, NoUsage, 0, {},
                           <<SetCall("set_dropped", e, RenderAttachmentTextureView)>>,
                           FALSE)
            /\ UNCHANGED <<singletons, panicked, manager, id_head, callers, passes>>

surface_texture_view_drop(e) ==
    /\ ~panicked
    /\ Has(world, e, SurfaceTextureKey) /\ Has(world, e, RenderAttachmentTextureView)
    /\ IF ~get_changed(world[e][SurfaceTextureKey])
       THEN NoOp("surface_texture_view_drop", e, NoUsage)
       ELSE IF world[e][SurfaceTextureKey].val # "None"
       THEN NoOp("surface_texture_view_drop", e, NoUsage)
       ELSE /\ world' = [world EXCEPT
                   ![e][RenderAttachmentTextureView] = set_dropped(@),
                   ![e][SurfaceTextureKey] = set_changed(@, FALSE)]
            /\ last' = Run("surface_texture_view_drop", e, NoUsage, 0, {},
                           <<SetCall("set_dropped", e, RenderAttachmentTextureView)>>,
                           FALSE)
            /\ UNCHANGED <<singletons, panicked, manager, id_head, callers, passes>>

----------------------------------------------------------------------------
(* Staging belts *)

StagingBeltKey(u) == Usage(u, "StagingBelt")
StagingBeltChangedKey(u) == Usage(u, "StagingBeltChanged")
StagingBeltWriteKey(u) == Usage(u, "StagingBeltWrite")
CommandBuffersKey == Untagged("CommandBuffers")

(* wgpu's StagingBelt: chunks in use since the last finish, and chunks     *)
(* closed by finish and not yet recalled                                   *)
NewStagingBelt(chunk_size) ==
    [chunk_size |-> chunk_size, active |-> FALSE, closed |-> FALSE, free |-> FALSE]

(* entities in some order: a query's iteration order *)
Orders(es) ==
    {o \in [1..Cardinality(es) -> es] : \A i, j \in 1..Cardinality(es) : o[i] = o[j] => i = j}

(* faulty ManagerCreate: the new belt is not inserted into the map *)
ManagerCreateForgets(m, head, chunk_size) == m

(* StagingBeltManager::create_staging_belt: the new id and the new map *)
ManagerCreate(m, head, chunk_size) == (head :> NewStagingBelt(chunk_size)) @@ m

(* Threads that call StagingBeltManager::create_staging_belt themselves,   *)
(* on the manager the systems use (1) or on a manager of their own (2).    *)
(* pc: where each thread is in the call; id: the value its fetch_add       *)
(* returned; seen: the ids that calls had returned when its call began;    *)
(* other: the map of manager 2; returned: the finished calls.              *)
Threads == 1..NumThreads
Managers == {1, 2}

NoCallers ==
    [pc |-> [t \in Threads |-> "idle"],
     mgr |-> [t \in Threads |-> 1],
     id |-> [t \in Threads |-> 0],
     seen |-> [t \in Threads |-> {}],
     other |-> [id \in {} |-> NewStagingBelt(0)],
     overwrote |-> FALSE,
     returned |-> {}]

(* the ids of the calls that have returned *)
ReturnedIds == {c.id : c \in callers.returned}

(* &mut self: no thread is inside a call on manager mgr *)
NoCallIn(mgr) == \A t \in Threads : callers.pc[t] = "idle" \/ callers.mgr[t] # mgr

(* create_staging_belt is entered: StagingBelt::new(chunk_size) *)
StagingBelt_new(t, mgr) ==
    /\ ~panicked
    /\ callers.pc[t] = "idle"
    /\ NoCallIn(mgr)
    /\ id_head + Cardinality({x \in Threads : callers.pc[x] = "fetch_add"}) < MaxIds
    /\ callers' = [callers EXCEPT !.pc[t] = "fetch_add", !.mgr[t] = mgr,
                                  !.seen[t] = ReturnedIds]
    /\ UNCHANGED <<passes, world, singletons, panicked, manager, id_head, last>>

(* faulty: the head is read and the incremented value is never stored *)
fetch_add_load_only(t) ==
    /\ callers.pc[t] = "fetch_add"
    /\ callers' = [callers EXCEPT !.pc[t] = "insert", !.id[t] = id_head]
    /\ UNCHANGED <<passes, world, singletons, panicked, manager, id_head, last>>

(* STAGING_BELT_ID_HEAD.fetch_add(1, Ordering::Relaxed): one atomic step *)
fetch_add(t) ==
    /\ callers.pc[t] = "fetch_add"
    /\ id_head' = id_head + 1
    /\ callers' = [callers EXCEPT !.pc[t] = "insert", !.id[t] = id_head]
    /\ UNCHANGED <<passes, world, singletons, panicked, manager, last>>

(* self.0.insert(id, staging_belt), and the call returns id *)
insert(t) ==
    LET id == callers.id[t]
        m == IF callers.mgr[t] = 1 THEN manager ELSE callers.other
        done == [id |-> id, t |-> t, mgr |-> callers.mgr[t], seen |-> callers.seen[t]]
    IN  /\ callers.pc[t] = "insert"
        /\ manager' = IF callers.mgr[t] = 1 THEN ManagerCreate(manager, id, 1)
                       ELSE manager
        /\ callers' = [callers EXCEPT
                          !.pc[t] = "idle",
                          !.other = IF callers.mgr[t] = 2
                                    THEN ManagerCreate(callers.other, id, 1)
                                    ELSE @,
                          !.overwrote = @ \/ id \in DOMAIN m,
                          !.returned = @ \cup {done}]
        /\ UNCHANGED <<passes, world, singletons, panicked, id_head, last>>

(* Direct calls of the manager's other methods, with any belt id: a       *)
(* StagingBeltId can come from another manager or from its Default.        *)
BeltIdRange == 0..(MaxIds - 1)

(* the map of manager mgr *)
MapOf(mgr) == IF mgr = 1 THEN manager ELSE callers.other

(* manager mgr's map becomes m *)
SetMapOf(mgr, m) ==
    /\ manager' = IF mgr = 1 THEN m ELSE manager
    /\ callers' = IF mgr = 2 THEN [callers EXCEPT !.other = m] ELSE callers

(* faulty: a missing belt is created on the fly (entry().or_insert) *)
write_buffer_or_insert(mgr, id, size, data) ==
    /\ ~panicked
    /\ NoCallIn(mgr)
    /\ SetMapOf(mgr, (id :> [NewStagingBelt(1) EXCEPT !.active = TRUE]) @@ MapOf(mgr))
    /\ panicked' = (size # Len(data))
    /\ last' = Ran("write_buffer", 0, NoUsage, 1, {[mgr |-> mgr, belt |-> id]}, <<>>,
                   size # Len(data))
    /\ UNCHANGED <<passes, world, singletons, id_head>>

(* StagingBeltManager::write_buffer: get_mut(belt_id).unwrap(), the belt's *)
(* write_buffer, then copy_from_slice(data) into the region of size bytes  *)
write_buffer(mgr, id, size, data) ==
    /\ ~panicked
    /\ NoCallIn(mgr)
    /\ IF id \notin DOMAIN MapOf(mgr)
       THEN /\ panicked' = TRUE
            /\ last' = Ran("write_buffer", 0, NoUsage, 1, {[mgr |-> mgr, belt |-> id]},
                           <<>>, TRUE)
            /\ UNCHANGED <<world, singletons, manager, id_head, callers, passes>>
       ELSE /\ SetMapOf(mgr, [MapOf(mgr) EXCEPT ![id].active = TRUE,
                                                ![id].free = MapOf(mgr)[id].active /\ @])
            /\ panicked' = (size # Len(data))
            /\ last' = Ran("write_buffer", 0, NoUsage, 1, {[mgr |-> mgr, belt |-> id]},
                           <<>>, size # Len(data))
            /\ UNCHANGED <<passes, world, singletons, id_head>>

(* StagingBeltManager::finish: get_mut(belt_id).unwrap().finish() *)
finish(mgr, id) ==
    /\ ~panicked
    /\ NoCallIn(mgr)
    /\ IF id \notin DOMAIN MapOf(mgr)
       THEN /\ panicked' = TRUE
            /\ last' = Ran("finish", 0, NoUsage, 1, {[mgr |-> mgr, belt |-> id]}, <<>>, TRUE)
            /\ UNCHANGED <<world, singletons, manager, id_head, callers, passes>>
       ELSE /\ SetMapOf(mgr, [MapOf(mgr) EXCEPT ![id].closed = @ \/ MapOf(mgr)[id].active,
                                                ![id].active = FALSE])
            /\ last' = Ran("finish", 0, NoUsage, 1, {[mgr |-> mgr, belt |-> id]}, <<>>, FALSE)
            /\ UNCHANGED <<passes, world, singletons, panicked, id_head>>

(* StagingBeltManager::recall: get_mut(belt_id).unwrap().recall() *)
recall(mgr, id) ==
    /\ ~panicked
    /\ NoCallIn(mgr)
    /\ IF id \notin DOMAIN MapOf(mgr)
       THEN /\ panicked' = TRUE
            /\ last' = Ran("recall", 0, NoUsage, 1, {[mgr |-> mgr, belt |-> id]}, <<>>, TRUE)
            /\ UNCHANGED <<world, singletons, manager, id_head, callers, passes>>
       ELSE /\ SetMapOf(mgr, [MapOf(mgr) EXCEPT ![id].closed = FALSE,
                                                ![id].free = @ \/ MapOf(mgr)[id].closed])
            /\ last' = Ran("recall", 0, NoUsage, 1, {[mgr |-> mgr, belt |-> id]}, <<>>, FALSE)
            /\ UNCHANGED <<passes, world, singletons, panicked, id_head>>

(* create_staging_belt_thread_local on one entity of the query *)
CreateBeltVisit(st, e, u) ==
    IF is_pending(st.w[e][StagingBeltKey(u)].staging_belt)
    THEN [w |-> [st.w EXCEPT ![e][StagingBeltKey(u)].staging_belt =
                                 set_ready(@, st.head)],
          m |-> ManagerCreate(st.m, st.head, st.w[e][StagingBeltKey(u)].chunk_size),
          head |-> st.head + 1,
          sets |-> Append(st.sets,
                          [call |-> "set_ready", e |-> e, k |-> StagingBeltKey(u),
                           from |-> st.w[e][StagingBeltKey(u)].staging_belt.st])]
    ELSE st

RECURSIVE CreateBeltLoop(_, _, _)
CreateBeltLoop(st, order, u) ==
    IF order = <<>> THEN st
    ELSE CreateBeltLoop(CreateBeltVisit(st, Head(order), u), Tail(order), u)

create_staging_belt_thread_local(u) ==
    LET m == {e \in Entities : Has(world, e, StagingBeltKey(u))} IN
    /\ ~panicked
    /\ m # {}
    /\ \E order \in Orders(m) :
          LET st == CreateBeltLoop([w |-> world, m |-> manager, head |-> id_head,
                                    sets |-> <<>>], order, u)
          IN  /\ world' = st.w
              /\ manager' = st.m
              /\ id_head' = st.head
              /\ last' = Ran("create_staging_belt_thread_local", 0, u,
                             Len(st.sets), {}, st.sets, FALSE)
              /\ UNCHANGED <<singletons, panicked, callers, passes>>

StagedWriteMatches(u) ==
    {e \in Entities :
        /\ Has(world, e, StagingBeltWriteKey(u))
        /\ Has(world, e, DataKey)
        /\ Has(world, e, Indirect(StagingBeltKey(u)))
        /\ Has(world, e, Indirect(StagingBeltChangedKey(u)))
        /\ Has(world, e, Indirect(Usage(u, "Buffer")))
        /\ Has(world, e, Indirect(CommandBuffersKey))}

(* the body of staging_belt_write_thread_local's for loop on entity e;    *)
(* status "return" is the loop body's return, "panic" an unwrap on None   *)
(* or copy_from_slice on slices of different lengths                      *)
StagedWriteVisit(st, e, u) ==
    LET w == st.w
        tbelt == w[e][Indirect(StagingBeltKey(u))]
        tflag == w[e][Indirect(StagingBeltChangedKey(u))]
        tbuf == w[e][Indirect(Usage(u, "Buffer"))]
        tcmd == w[e][Indirect(CommandBuffersKey)]
        visited == Append(st.visited, e)
    IN
    IF ~(/\ Has(w, tbelt, StagingBeltKey(u))
         /\ Has(w, tflag, StagingBeltChangedKey(u))
         /\ Has(w, tbuf, Usage(u, "Buffer"))
         /\ Has(w, tcmd, CommandBuffersKey))
    THEN [st EXCEPT !.status = "panic", !.visited = visited]
    ELSE IF ~get_changed(w[e][DataKey])
    THEN [st EXCEPT !.visited = visited]
    ELSE IF ~is_ready(w[tbelt][StagingBeltKey(u)].staging_belt)
    THEN [st EXCEPT !.status = "return", !.visited = visited]
    ELSE IF ~is_ready(w[tbuf][Usage(u, "Buffer")])
    THEN [st EXCEPT !.status = "return", !.visited = visited]
    ELSE LET id == w[tbelt][StagingBeltKey(u)].staging_belt.v
             offset == w[e][StagingBeltWriteKey(u)].offset
             size == w[e][StagingBeltWriteKey(u)].size
             bytes == to_bytes(w[e][DataKey].val)
         IN
         IF id \notin DOMAIN st.m \/ size # Len(bytes)
         THEN [st EXCEPT !.status = "panic", !.visited = visited]
         ELSE [w |-> [w EXCEPT
                        ![tcmd][CommandBuffersKey] =
                            Append(@, [src |-> e, dst |-> tbuf, belt |-> id]),
                        ![e][DataKey] = set_changed(@, FALSE),
                        ![tflag][StagingBeltChangedKey(u)] = TRUE],
               m |-> [st.m EXCEPT ![id].active = TRUE,
                                  ![id].free = st.m[id].active /\ @],
               status |-> "run",
               visited |-> visited,
               writes |-> st.writes \cup
                   {[src |-> e, belt |-> id, dst |-> tbuf, offset |-> offset,
                     size |-> size, bytes |-> bytes]}]

RECURSIVE StagedWriteLoop(_, _, _)
StagedWriteLoop(st, order, u) ==
    IF order = <<>> \/ st.status # "run" THEN st
    ELSE StagedWriteLoop(StagedWriteVisit(st, Head(order), u), Tail(order), u)

staging_belt_write_thread_local(u) ==
    /\ ~panicked
    /\ StagedWriteMatches(u) # {}
    /\ \A e \in Entities :
          Has(world, e, CommandBuffersKey) =>
              Len(world[e][CommandBuffersKey]) + Cardinality(StagedWriteMatches(u)) <= MaxQueue
    /\ IF "Device" \notin singletons
       THEN /\ last' = Ran("staging_belt_write_thread_local", 0, u, 0, {}, <<>>, FALSE)
                         @@ [visited |-> <<>>, status |-> "return", m |-> manager]
            /\ UNCHANGED <<world, singletons, panicked, manager, id_head, callers, passes>>
       ELSE \E order \in Orders(StagedWriteMatches(u)) :
              LET st == StagedWriteLoop([w |-> world, m |-> manager, status |-> "run",
                                         visited |-> <<>>, writes |-> {}], order, u)
              IN  /\ world' = st.w
                  /\ manager' = st.m
                  /\ panicked' = (st.status = "panic")
                  /\ last' = Ran("staging_belt_write_thread_local", 0, u, 0,
                                 st.writes, <<>>, st.status = "panic")
                             @@ [visited |-> st.visited, status |-> st.status,
                                 m |-> manager]
                  /\ UNCHANGED <<singletons, id_head, callers, passes>>

BeltMatches(u) ==
    {e \in Entities :
        Has(world, e, StagingBeltKey(u)) /\ Has(world, e, StagingBeltChangedKey(u))}

(* faulty: the closures act on every Ready belt, whatever its flag *)
BeltReady(u) ==
    {e \in BeltMatches(u) : is_ready(world[e][StagingBeltKey(u)].staging_belt)}

(* the entities whose belt the finish and recall closures act on *)
BeltFlagged(u) ==
    {e \in BeltMatches(u) :
        /\ world[e][StagingBeltChangedKey(u)]
        /\ is_ready(world[e][StagingBeltKey(u)].staging_belt)}

BeltIds(u, es) == {world[e][StagingBeltKey(u)].staging_belt.v : e \in es}

(* faulty: finish clears the belt flag of the belts it finishes *)
staging_belt_finish_thread_local_clears(u) ==
    /\ ~panicked
    /\ BeltMatches(u) # {}
    /\ manager' = [id \in DOMAIN manager |->
           IF id \in BeltIds(u, BeltFlagged(u))
           THEN [manager[id] EXCEPT !.closed = @ \/ manager[id].active, !.active = FALSE]
           ELSE manager[id]]
    /\ world' = [e \in Entities |->
           IF e \in BeltFlagged(u)
           THEN [world[e] EXCEPT ![StagingBeltChangedKey(u)] = FALSE]
           ELSE world[e]]
    /\ last' = Ran("staging_belt_finish_thread_local", 0, u, 0,
                   {[finish |-> id] : id \in BeltIds(u, BeltFlagged(u))}, <<>>, FALSE)
    /\ UNCHANGED <<singletons, panicked, id_head, callers, passes>>

staging_belt_finish_thread_local(u) ==
    /\ ~panicked
    /\ BeltMatches(u) # {}
    /\ IF \E id \in BeltIds(u, BeltFlagged(u)) : id \notin DOMAIN manager
       THEN /\ panicked' = TRUE
            /\ last' = Ran("staging_belt_finish_thread_local", 0, u, 0, {}, <<>>, TRUE)
            /\ UNCHANGED <<world, singletons, manager, id_head, callers, passes>>
       ELSE /\ manager' = [id \in DOMAIN manager |->
                   IF id \in BeltIds(u, BeltFlagged(u))
                   THEN [manager[id] EXCEPT !.closed = @ \/ manager[id].active,
                                            !.active = FALSE]
                   ELSE manager[id]]
            /\ world' = world
            /\ last' = Ran("staging_belt_finish_thread_local", 0, u, 0,
                           {[finish |-> id] : id \in BeltIds(u, BeltFlagged(u))},
                           <<>>, FALSE)
            /\ UNCHANGED <<singletons, panicked, id_head, callers, passes>>

(* faulty: recall takes the recalled belts out of the manager's map *)
staging_belt_recall_thread_local_removes(u) ==
    /\ ~panicked
    /\ BeltMatches(u) # {}
    /\ manager' = [id \in DOMAIN manager \ BeltIds(u, BeltFlagged(u)) |-> manager[id]]
    /\ world' = [e \in Entities |->
           IF e \in BeltFlagged(u)
           THEN [world[e] EXCEPT ![StagingBeltChangedKey(u)] = FALSE]
           ELSE world[e]]
    /\ last' = Ran("staging_belt_recall_thread_local", 0, u, 0,
                   {[recall |-> id] : id \in BeltIds(u, BeltFlagged(u))}, <<>>, FALSE)
    /\ UNCHANGED <<singletons, panicked, id_head, callers, passes>>

staging_belt_recall_thread_local(u) ==
    /\ ~panicked
    /\ BeltMatches(u) # {}
    /\ IF \E id \in BeltIds(u, BeltFlagged(u)) : id \notin DOMAIN manager
       THEN /\ panicked' = TRUE
            /\ last' = Ran("staging_belt_recall_thread_local", 0, u, 0, {}, <<>>, TRUE)
            /\ UNCHANGED <<world, singletons, manager, id_head, callers, passes>>
       ELSE /\ manager' = [id \in DOMAIN manager |->
                   IF id \in BeltIds(u, BeltFlagged(u))
                   THEN [manager[id] EXCEPT !.closed = FALSE,
                                            !.free = @ \/ manager[id].closed]
                   ELSE manager[id]]
            /\ world' = [e \in Entities |->
                   IF e \in BeltFlagged(u)
                   THEN [world[e] EXCEPT ![StagingBeltChangedKey(u)] = FALSE]
                   ELSE world[e]]
            /\ last' = Ran("staging_belt_recall_thread_local", 0, u, 0,
                           {[recall |-> id] : id \in BeltIds(u, BeltFlagged(u))},
                           <<>>, FALSE)
            /\ UNCHANGED <<singletons, panicked, id_head, callers, passes>>

(* faulty: the command buffers are submitted and stay in the queue *)
submit_command_buffers_keeps(e) ==
    /\ ~panicked
    /\ Has(world, e, CommandBuffersKey)
    /\ world[e][CommandBuffersKey] # <<>>
    /\ last' = Ran("submit_command_buffers", e, NoUsage, 0,
                   {[submit |-> world[e][CommandBuffersKey]]}, <<>>, FALSE)
    /\ UNCHANGED <<world, singletons, panicked, manager, id_head, callers, passes>>

submit_command_buffers(e) ==
    /\ ~panicked
    /\ Has(world, e, CommandBuffersKey)
    /\ IF "Queue" \notin singletons
       THEN /\ last' = Ran("submit_command_buffers", e, NoUsage, 0, {}, <<>>, FALSE)
            /\ UNCHANGED <<world, singletons, panicked, manager, id_head, callers, passes>>
       ELSE /\ world' = [world EXCEPT ![e][CommandBuffersKey] = <<>>]
            /\ last' = Ran("submit_command_buffers", e, NoUsage, 0,
                           {[submit |-> world[e][CommandBuffersKey]]}, <<>>, FALSE)
            /\ UNCHANGED <<singletons, panicked, manager, id_head, callers, passes>>

----------------------------------------------------------------------------
(* Producers: code outside the core that rewrites a descriptor or a        *)
(* tracked value and sets its changed flag.                                *)

DescriptorNames ==
    {"BufferDescriptor", "BufferInitDescriptor", "SamplerDescriptor",
     "ShaderModuleDescriptor", "ShaderModuleDescriptorSpirV", "TextureViewDescriptor"}

mutate_descriptor(e, k, v) ==
    /\ ~panicked
    /\ Has(world, e, k) /\ k[2] \in DescriptorNames /\ k[1] # Uniform
    /\ world' = [world EXCEPT ![e][k] = Changed(v, TRUE)]
    /\ last' = Produced("mutate_descriptor", e, k[1])
    /\ UNCHANGED <<singletons, panicked, manager, id_head, callers, passes>>

(* a resize: a new width for a texture descriptor *)
resize_texture(e, k, w) ==
    /\ ~panicked
    /\ Has(world, e, k) /\ k[2] = "TextureDescriptor"
    /\ world' = [world EXCEPT ![e][k] = Changed([@.val EXCEPT !.width = w], TRUE)]
    /\ last' = Produced("resize_texture", e, k[1])
    /\ UNCHANGED <<singletons, panicked, manager, id_head, callers, passes>>

(* the window system: the window comes into being, the window is resized *)
window_created(e) ==
    /\ ~panicked
    /\ Has(world, e, WindowKey) /\ is_pending(world[e][WindowKey])
    /\ world' = [world EXCEPT ![e][WindowKey] = set_ready(@, [window |-> e])]
    /\ last' = Produced("window_created", e, NoUsage)
    /\ UNCHANGED <<singletons, panicked, manager, id_head, callers, passes>>

window_resized(e, w, h) ==
    /\ ~panicked
    /\ Has(world, e, WindowSizeKey)
    /\ world' = [world EXCEPT ![e][WindowSizeKey] = Changed(Size2d(w, h), TRUE)]
    /\ last' = Produced("window_resized", e, NoUsage)
    /\ UNCHANGED <<singletons, panicked, manager, id_head, callers, passes>>

(* the windowing side clears the flag of the window size once the frame's  *)
(* consumers have seen it                                                  *)
reset_resize_window(e) ==
    /\ ~panicked
    /\ Has(world, e, WindowSizeKey)
    /\ world' = [world EXCEPT ![e][WindowSizeKey] = set_changed(@, FALSE)]
    /\ last' = Produced("reset_resize_window", e, NoUsage)
    /\ UNCHANGED <<singletons, panicked, manager, id_head, callers, passes>>

mutate_data(e, v) ==
    /\ ~panicked
    /\ Has(world, e, DataKey)
    /\ world' = [world EXCEPT ![e][DataKey] = Changed(v, TRUE)]
    /\ last' = Produced("mutate_data", e, NoUsage)
    /\ UNCHANGED <<singletons, panicked, manager, id_head, callers, passes>>

----------------------------------------------------------------------------
(* Assembly *)

NoComponents == [k \in {} |-> 0]

assemble_buffer(u, v) ==
    Usage(u, "BufferDescriptor") :> Changed(v, FALSE) @@ Usage(u, "Buffer") :> Pending

assemble_buffer_init(u, v) ==
    Usage(u, "BufferInitDescriptor") :> Changed(v, FALSE) @@ Usage(u, "Buffer") :> Pending

assemble_buffer_data(u, self, v, offset) ==
    DataKey :> Changed(v, TRUE)
    @@ Usage(u, "BufferWrite") :> offset
    @@ Indirect(Usage(u, "Buffer")) :> self

assemble_shader(v) ==
    Untagged("ShaderModuleDescriptor") :> Changed(v, FALSE)
    @@ Untagged("ShaderModule") :> Pending

assemble_shader_usage(u, v) ==
    Usage(u, "ShaderModuleDescriptor") :> Changed(v, FALSE)
    @@ Usage(u, "ShaderModule") :> Pending

assemble_sampler(u, v) ==
    Usage(u, "SamplerDescriptor") :> Changed(v, FALSE) @@ Usage(u, "Sampler") :> Pending

assemble_texture(u, size) ==
    Usage(u, "TextureDescriptor") :> Changed(size, FALSE) @@ Usage(u, "Texture") :> Pending

assemble_texture_view(u, v) ==
    Usage(u, "TextureViewDescriptor") :> Changed(v, FALSE)
    @@ Usage(u, "TextureView") :> Pending

assemble_texture_data(u, self, v, offset) ==
    DataKey :> Changed(v, TRUE)
    @@ Usage(u, "TextureWrite") :> offset
    @@ Indirect(Usage(u, "TextureDescriptor")) :> self
    @@ Indirect(Usage(u, "Texture")) :> self

assemble_window == WindowKey :> Pending

assemble_window_size(w, h) == WindowSizeKey :> Changed(Size2d(w, h), FALSE)

assemble_surface ==
    SurfaceConfigurationKey :> Changed(Size2d(SurfaceDefaultSize, SurfaceDefaultSize), FALSE)
    @@ SurfaceKey :> Pending

assemble_window_surface ==
    assemble_surface
    @@ SurfaceTextureKey :> Changed("None", FALSE)
    @@ RenderAttachmentTextureViewDescriptor :> Changed(0, FALSE)
    @@ RenderAttachmentTextureView :> Pending

assemble_staging_belt_with_usage(u, chunk_size) ==
    StagingBeltKey(u) :> [chunk_size |-> chunk_size, staging_belt |-> Pending]
    @@ StagingBeltChangedKey(u) :> FALSE

assemble_staging_belt_data_with_usage(u, self, v, offset, size) ==
    DataKey :> Changed(v, TRUE)
    @@ StagingBeltWriteKey(u) :> [offset |-> offset, size |-> size]
    @@ Indirect(StagingBeltKey(u)) :> self
    @@ Indirect(StagingBeltChangedKey(u)) :> self
    @@ Indirect(Usage(u, "Buffer")) :> self
    @@ Indirect(CommandBuffersKey) :> self

(* IndirectComponent::foreign: the indirect component for key k names     *)
(* entity target                                                          *)
foreign(k, target) == Indirect(k) :> target

AllSingletons == {"Instance", "Adapter", "Device", "Queue"}

(* the boids renderer entity: front and back particle buffers fed by one   *)
(* shared tracked value, both written at offset 0                          *)
BoidsWorld ==
    [e \in Entities |->
        IF e = 1
        THEN assemble_buffer_data(FrontBuffer, 1, 0, 0)
             @@ assemble_buffer_data(BackBuffer, 1, 0, 0)
             @@ assemble_buffer(FrontBuffer, 0)
             @@ assemble_buffer(BackBuffer, 0)
        ELSE NoComponents]

(* worlds for the creation systems the boids entity does not use: entity 1 *)
(* holds one descriptor and its pending resource                           *)
OnEntity1(comps) == [e \in Entities |-> IF e = 1 THEN comps ELSE NoComponents]

KindWorlds ==
    {OnEntity1(assemble_shader(0)),
     OnEntity1(assemble_shader_usage(FrontBuffer, 0)),
     OnEntity1(Untagged("ShaderModuleDescriptorSpirV") :> Changed(0, FALSE)
               @@ Untagged("ShaderModule") :> Pending),
     OnEntity1(Usage(BackBuffer, "ShaderModuleDescriptorSpirV") :> Changed(0, FALSE)
               @@ Usage(BackBuffer, "ShaderModule") :> Pending),
     OnEntity1(assemble_sampler(NoUsage, 0)),
     OnEntity1(assemble_sampler(BackBuffer, 0)),
     OnEntity1(assemble_buffer_init(FrontBuffer, 0))}

(* a texture alone on entity 1 *)
TextureWorld(w, h, d) == OnEntity1(assemble_texture(FrontBuffer, Extent3d(w, h, d)))

(* entity 1 holds a texture; entity 2 holds a view whose indirect texture   *)
(* reference names entity t                                                *)
TextureViewWorld(w, t) ==
    [e \in Entities |->
        IF e = 1 THEN assemble_texture(FrontBuffer, Extent3d(w, 1, 1))
        ELSE IF e = 2
        THEN assemble_texture_view(FrontBuffer, 0)
             @@ Indirect(Usage(FrontBuffer, "Texture")) :> t
        ELSE NoComponents]

(* entity 1 holds a texture; entity 2 holds texels written to the texture  *)
(* entity t names, with the extent of the descriptor entity td names       *)
TextureWriteWorld(td, t) ==
    [e \in Entities |->
        IF e = 1 THEN assemble_texture(FrontBuffer, Extent3d(1, 1, 1))
        ELSE IF e = 2
        THEN DataKey :> Changed(0, TRUE)
             @@ Usage(FrontBuffer, "TextureWrite") :> 0
             @@ Indirect(Usage(FrontBuffer, "TextureDescriptor")) :> td
             @@ Indirect(Usage(FrontBuffer, "Texture")) :> t
        ELSE NoComponents]

InitTextures ==
    /\ \/ \E w \in Dims, h \in Dims, d \in Dims : world = TextureWorld(w, h, d)
       \/ \E w \in Dims, t \in Entities : world = TextureViewWorld(w, t)
       \/ \E td \in Entities, t \in Entities : world = TextureWriteWorld(td, t)
    /\ singletons = AllSingletons

(* a window entity with its surface, surface texture and render attachment *)
(* view; the window keeps its size                                         *)
SurfaceWorld == OnEntity1(assemble_window @@ assemble_window_surface)

(* a window entity with a tracked size and the surface configured from it *)
SurfaceSizeWorld ==
    OnEntity1(assemble_window @@ assemble_window_size(1, 1) @@ assemble_surface)

InitSurface ==
    /\ world \in {SurfaceWorld, SurfaceSizeWorld}
    /\ singletons = AllSingletons

(* entity 1 holds a belt, a buffer, a command buffer queue and a value     *)
(* staged into its own buffer, with the configured write size             *)
StagedWorld(size) ==
    OnEntity1(assemble_staging_belt_with_usage(Uniform, 1)
              @@ assemble_buffer(Uniform, 0)
              @@ CommandBuffersKey :> <<>>
              @@ assemble_staging_belt_data_with_usage(Uniform, 1, 0, 0, size))

(* as StagedWorld, and entity 2 holds a second value staged through the    *)
(* belt of entity 1 into the buffer of entity tbuf: entity 1's buffer, a   *)
(* buffer of its own, or that of an entity holding none                    *)
SharedBeltWorld(tbuf) ==
    [e \in Entities |->
        IF e = 1 THEN StagedWorld(Len(to_bytes(0)))[1]
        ELSE IF e = 2
        THEN foreign(StagingBeltKey(Uniform), 1)
             @@ foreign(StagingBeltChangedKey(Uniform), 1)
             @@ foreign(Usage(Uniform, "Buffer"), tbuf)
             @@ foreign(CommandBuffersKey, 1)
             @@ (IF tbuf = 2 THEN assemble_buffer(Uniform, 0) ELSE NoComponents)
             @@ assemble_staging_belt_data_with_usage(Uniform, 2, 0, 0, Len(to_bytes(0)))
        ELSE NoComponents]

StagedIndirectKeys ==
    {StagingBeltKey(Uniform), StagingBeltChangedKey(Uniform),
     Usage(Uniform, "Buffer"), CommandBuffersKey}

(* as StagedWorld, with the indirect component for key k naming entity 2,  *)
(* which holds nothing                                                     *)
BrokenStagedWorld(k) ==
    OnEntity1(foreign(k, 2) @@ StagedWorld(Len(to_bytes(0)))[1])

(* staged writes: one value, two values on one belt with a buffer each,    *)
(* and a broken indirection; the world in which two values share the belt  *)
(* and the buffer starts BeltFrameInit and FrameInit                       *)
InitStaged ==
    /\ \/ \E size \in {Len(to_bytes(0)), Len(to_bytes(0)) + 1} : world = StagedWorld(size)
       \/ \E tbuf \in Entities \ {1} : world = SharedBeltWorld(tbuf)
       \/ \E k \in StagedIndirectKeys : world = BrokenStagedWorld(k)
    /\ singletons = AllSingletons

(* entity 2 holds a buffer of its own and a value written to the buffer of  *)
(* entity t; entity 1 holds a buffer when has is TRUE                       *)
IndirectWriteWorld(t, has) ==
    [e \in Entities |->
        IF e = 1 THEN (IF has THEN assemble_buffer(Uniform, 0) ELSE NoComponents)
        ELSE IF e = 2
        THEN foreign(Usage(Uniform, "Buffer"), t)
             @@ assemble_buffer(Uniform, 1)
             @@ assemble_buffer_data(Uniform, 2, 0, 1)
        ELSE NoComponents]

(* a write whose destination cell its owner has dropped: the buffer of     *)
(* IndirectWriteWorld or the texture of TextureWriteWorld                  *)
DroppedTargetWorld(name) ==
    IF name = "Buffer"
    THEN [e \in Entities |->
            IF e = 1 THEN Usage(Uniform, "Buffer") :> Dropped @@ IndirectWriteWorld(1, TRUE)[1]
            ELSE IndirectWriteWorld(1, TRUE)[e]]
    ELSE [e \in Entities |->
            IF e = 1 THEN Usage(FrontBuffer, "Texture") :> Dropped @@ TextureWriteWorld(1, 1)[1]
            ELSE TextureWriteWorld(1, 1)[e]]

InitBoids ==
    /\ \/ world = BoidsWorld
       \/ \E t \in Entities, has \in BOOLEAN : world = IndirectWriteWorld(t, has)
       \/ \E name \in {"Buffer", "Texture"} : world = DroppedTargetWorld(name)
    /\ singletons = AllSingletons

(* the creation systems also run in a world that was given no Device *)
InitKinds ==
    /\ world \in KindWorlds
    /\ singletons \in {AllSingletons, AllSingletons \ {"Device"}}

Init ==
    /\ InitBoids \/ InitKinds \/ InitTextures \/ InitSurface \/ InitStaged
    /\ panicked = FALSE
    /\ manager = [id \in {} |-> NewStagingBelt(0)]
    /\ id_head = 0
    /\ callers = NoCallers
    /\ passes = NoPasses
    /\ last = InitRun(world)

Keys(e) == DOMAIN world[e]

Next ==
    \/ \E e \in Entities : create_shader_modules(e)
    \/ \E e \in Entities, u \in Usages : create_shader_modules_with_usage(e, u)
    \/ \E e \in Entities : create_shader_modules_spirv(e)
    \/ \E e \in Entities, u \in Usages : create_shader_modules_usage_spirv(e, u)
    \/ \E e \in Entities, u \in Usages : create_buffers(e, u)
    \/ \E e \in Entities, u \in Usages : create_buffers_init(e, u)
    \/ \E e \in Entities : create_samplers(e)
    \/ \E e \in Entities, u \in Usages : create_samplers_with_usage(e, u)
    \/ \E e \in Entities, u \in Usages : create_textures(e, u)
    \/ \E e \in Entities, u \in Usages : create_texture_views(e, u)
    \/ \E e \in Entities, compatible \in BOOLEAN : create_window_surfaces(e, compatible)
    \/ \E e \in Entities : reconfigure_surfaces(e)
    \/ \E e \in Entities : reset_surface_config_changed(e)
    \/ \E e \in Entities, acquired \in BOOLEAN : surface_texture_query(e, acquired)
    \/ \E e \in Entities : surface_texture_view_query(e)
    \/ \E e \in Entities \cup {0}, acquired \in BOOLEAN : surface_textures_views(e, acquired)
    \/ \E e \in Entities : surface_size(e)
    \/ \E e \in Entities : surface_texture_present(e)
    \/ \E e \in Entities : surface_texture_view_drop(e)
    \/ \E u \in Usages : buffer_write(u)
    \/ \E u \in Usages : create_staging_belt_thread_local(u)
    \/ \E u \in Usages : staging_belt_write_thread_local(u)
    \/ \E u \in Usages : staging_belt_finish_thread_local(u)
    \/ \E u \in Usages : staging_belt_recall_thread_local(u)
    \/ \E e \in Entities : submit_command_buffers(e)
    \/ \E u \in Usages : texture_write(u)
    \/ \E e \in Entities, v \in Vals : \E k \in Keys(e) : mutate_descriptor(e, k, v)
    \/ \E e \in Entities, w \in Dims : \E k \in Keys(e) : resize_texture(e, k, w)
    \/ \E e \in Entities : window_created(e)
    \/ \E e \in Entities, w \in WindowDims, h \in WindowDims : window_resized(e, w, h)
    \/ \E e \in Entities, v \in Vals : mutate_data(e, v)

Spec == Init /\ [][Next]_vars

----------------------------------------------------------------------------
(* What a recorded creation run was instantiated on *)

GenericCreateOps ==
    {"create_shader_modules", "create_shader_modules_with_usage",
     "create_shader_modules_spirv", "create_shader_modules_usage_spirv",
     "create_buffers", "create_buffers_init",
     "create_samplers", "create_samplers_with_usage"}

DescNameOf(op) ==
    CASE op \in {"create_shader_modules", "create_shader_modules_with_usage"}
            -> "ShaderModuleDescriptor"
      [] op \in {"create_shader_modules_spirv", "create_shader_modules_usage_spirv"}
            -> "ShaderModuleDescriptorSpirV"
      [] op = "create_buffers" -> "BufferDescriptor"
      [] op = "create_buffers_init" -> "BufferInitDescriptor"
      [] op \in {"create_samplers", "create_samplers_with_usage"} -> "SamplerDescriptor"
      [] op = "create_textures" -> "TextureDescriptor"
      [] op = "create_texture_views" -> "TextureViewDescriptor"

ResNameOf(op) ==
    CASE op \in {"create_shader_modules", "create_shader_modules_with_usage",
                 "create_shader_modules_spirv", "create_shader_modules_usage_spirv"}
            -> "ShaderModule"
      [] op \in {"create_buffers", "create_buffers_init"} -> "Buffer"
      [] op \in {"create_samplers", "create_samplers_with_usage"} -> "Sampler"
      [] op = "create_textures" -> "Texture"
      [] op = "create_texture_views" -> "TextureView"

LastDesc(w) == w[last.e][<<last.u, DescNameOf(last.op)>>]
LastCell(w) == w[last.e][<<last.u, ResNameOf(last.op)>>]

(* the decision rule's condition, on the world w *)
Triggered(w) == is_pending(LastCell(w)) \/ get_changed(LastDesc(w))

----------------------------------------------------------------------------
(* C1: with a Device in the world, one run of a generic creation system    *)
(* (buffers, buffers_init, samplers, shader modules) on an entity makes a  *)
(* GPU creation call if and only if the cell was Pending or the            *)
(* descriptor's changed flag was set; after such a run the cell is Ready   *)
(* and the flag is false; otherwise the run makes no call and leaves the   *)
(* world as it was.                                                        *)
C1_DecisionRule ==
    (last.op \in GenericCreateOps /\ "Device" \in singletons) =>
        /\ ~last.panic
        /\ last.calls \in {0, 1}
        /\ (last.calls = 1) <=> Triggered(last.pre)
        /\ Triggered(last.pre) =>
              /\ is_ready(LastCell(world))
              /\ ~get_changed(LastDesc(world))
        /\ ~Triggered(last.pre) =>
              /\ LastCell(world) = LastCell(last.pre)
              /\ LastDesc(world) = LastDesc(last.pre)
              /\ world = last.pre

(* a freshly assembled Pending buffer after its first create_buffers run *)
C1_Witness ==
    /\ last.op = "create_buffers"
    /\ last.pre = BoidsWorld
    /\ last.calls = 1
    /\ is_ready(LastCell(world))
    /\ ~get_changed(LastDesc(world))

(* C2: when a creation system runs twice in a row on the same entity with  *)
(* nothing in between, the second run makes no creation call and leaves    *)
(* the world as the first run left it; the two runs together make at most  *)
(* one creation call, and exactly one when the first run of a generic      *)
(* creation system found the cell Pending or the flag set.                 *)
C2_Idempotent ==
    (last.op \in GenericCreateOps \cup {"create_textures", "create_texture_views"}
        /\ last.rep.is) =>
        /\ last.calls = 0
        /\ ~last.panic
        /\ world = last.pre
        /\ last.rep.calls + last.calls <= 1
        /\ (last.op \in GenericCreateOps
             /\ (is_pending(last.rep.pre[last.e][<<last.u, ResNameOf(last.op)>>])
                 \/ get_changed(last.rep.pre[last.e][<<last.u, DescNameOf(last.op)>>])))
           => last.rep.calls + last.calls = 1

(* create_samplers run twice on a pending sampler *)
C2_Witness ==
    /\ last.op = "create_samplers"
    /\ last.rep.is
    /\ is_pending(last.rep.pre[last.e][Untagged("Sampler")])
    /\ last.rep.calls = 1
    /\ last.calls = 0

(* the lazy cells of world w: entity and key *)
CellNames == {"ShaderModule", "Buffer", "Sampler", "Texture", "TextureView",
              "Surface", "Window", "StagingBelt"}
Cells(w) == {c \in Entities \X UNION {DOMAIN w[e] : e \in Entities} :
                c[2] \in DOMAIN w[c[1]] /\ c[2][2] \in CellNames}
CellAt(w, c) ==
    IF c[2][2] = "StagingBelt" THEN w[c[1]][c[2]].staging_belt ELSE w[c[1]][c[2]]

(* C3: no step of any system moves a cell to Pending: every cell that was  *)
(* Ready or Dropped before a step is not Pending after it, and no step     *)
(* adds or removes a cell.                                                 *)
C3_NeverBackToPending ==
    /\ Cells(world) = Cells(last.pre)
    /\ \A c \in Cells(world) :
          ~is_pending(CellAt(last.pre, c)) => ~is_pending(CellAt(world, c))

(* a Dropped render attachment view is made Ready again, not Pending *)
C3_Witness ==
    /\ last.op = "surface_texture_view_query"
    /\ last.pre[last.e][RenderAttachmentTextureView] = Dropped
    /\ is_ready(world[last.e][RenderAttachmentTextureView])

(* C4: every set_dropped() call on the render attachment view is made on a *)
(* cell that is Ready immediately before the call.                         *)
C4_DroppedOnlyFromReady ==
    \A i \in 1..Len(last.sets) :
        (last.sets[i].call = "set_dropped" /\ last.sets[i].k = RenderAttachmentTextureView)
            => last.sets[i].from = "Ready"

(* C5 as stated: every set_ready() call is made on a cell that is Pending  *)
(* or Dropped immediately before the call.                                 *)
C5_ReadyOnlyFromPendingOrDropped ==
    \A i \in 1..Len(last.sets) :
        last.sets[i].call = "set_ready" => last.sets[i].from \in {"Pending", "Dropped"}

(* C5 amended: a set_ready() call on a cell that is already Ready is a     *)
(* recreation: a creation system makes it only when the descriptor's       *)
(* changed flag was set before the run, the surface view query only for a  *)
(* surface texture whose changed flag was set; the window surface and the  *)
(* staging belt are only ever set on a Pending cell.                       *)
C5_ReadyFromReadyOnlyOnChange ==
    \A i \in 1..Len(last.sets) :
        last.sets[i].call = "set_ready" =>
            /\ last.op \in {"create_window_surfaces", "create_staging_belt_thread_local"}
                  => last.sets[i].from = "Pending"
            /\ last.sets[i].from = "Ready" =>
                  \/ /\ last.op \in GenericCreateOps
                                   \cup {"create_textures", "create_texture_views"}
                     /\ get_changed(LastDesc(last.pre))
                  \/ /\ last.op = "surface_texture_view_query"
                     /\ get_changed(last.pre[last.e][SurfaceTextureKey])
                  \/ /\ last.op = "surface_textures_views"
                     /\ world[last.e][SurfaceTextureKey].val = "Some"

(* a Ready buffer is recreated after a descriptor change *)
C5_Witness ==
    /\ last.op = "create_buffers"
    /\ Len(last.sets) = 1
    /\ last.sets[1].call = "set_ready"
    /\ last.sets[1].from = "Ready"
    /\ get_changed(LastDesc(last.pre))

(* C6: a buffer_write run clears the data flag of every matching entity    *)
(* whose flag was set and whose buffer was Ready, issuing one queue write  *)
(* for it; a second run right after the first issues no queue write and    *)
(* leaves every flag as the first run left it.                             *)
C6_SingleConsumption ==
    (last.op = "buffer_write" /\ "Queue" \in singletons /\ ~last.panic) =>
        /\ \A e \in Entities :
              (/\ Has(last.pre, e, Usage(last.u, "BufferWrite"))
               /\ Has(last.pre, e, DataKey)
               /\ Has(last.pre, e, Indirect(Usage(last.u, "Buffer")))
               /\ get_changed(last.pre[e][DataKey])
               /\ is_ready(last.pre[last.pre[e][Indirect(Usage(last.u, "Buffer"))]]
                                   [Usage(last.u, "Buffer")]))
              => /\ ~get_changed(world[e][DataKey])
                 /\ Cardinality({w \in last.writes : w.src = e}) = 1
        /\ last.rep.is => (last.writes = {} /\ world = last.pre)

(* the flag was set, the first run wrote and cleared it, the second did nothing *)
C6_Witness ==
    /\ last.op = "buffer_write"
    /\ last.rep.is
    /\ last.rep.writes # {}
    /\ \E e \in Entities :
          /\ Has(world, e, DataKey)
          /\ get_changed(last.rep.pre[e][DataKey])
          /\ ~get_changed(world[e][DataKey])
    /\ last.writes = {}

(* C7: a system run instantiated for usage tag A, or a producer setting    *)
(* the flag of A's descriptor, leaves every component held under another   *)
(* usage tag as it was, and every lazy cell it sets is held under A.       *)
C7_UsageIsolation ==
    (last.u \in Usages) =>
        /\ \A e \in Entities : \A k \in DOMAIN world[e] :
              (k[1] \in Usages /\ k[1] # last.u) => world[e][k] = last.pre[e][k]
        /\ \A i \in 1..Len(last.sets) : last.sets[i].k[1] = last.u

(* FrontBuffer's create_buffers created while BackBuffer's cell stayed Pending *)
C7_Witness ==
    /\ last.op = "create_buffers"
    /\ last.u = FrontBuffer
    /\ last.calls = 1
    /\ Has(world, last.e, Usage(BackBuffer, "Buffer"))
    /\ is_pending(world[last.e][Usage(BackBuffer, "Buffer")])
    /\ is_ready(world[last.e][Usage(FrontBuffer, "Buffer")])

(* the entity that e's indirect component for key k names, in world w *)
TargetOf(w, e, k) == w[e][Indirect(k)]

(* the entities of world w holding every key of ks *)
Holding(w, ks) == {e \in Entities : \A k \in ks : Has(w, e, k)}

(* C8: every indirect lookup a run makes is answered by the named entity's *)
(* own component, and a lookup on an entity lacking it panics.             *)
(* buffer_write and texture_write (with a Queue): the run panics exactly   *)
(* when some matching entity names an entity lacking the component; every  *)
(* write goes to the named entity's Ready cell, and without a panic the    *)
(* named entity's cell alone decides whether a changed value is written.   *)
(* create_texture_views: the run panics exactly when the named entity      *)
(* lacks the texture, and a created view is a view of the named entity's   *)
(* Ready texture.  staging_belt_write_thread_local: every entity the loop  *)
(* reaches with an unresolvable indirect component ends the run in a       *)
(* panic, and every staged write uses the named entities' belt and buffer. *)
C8_IndirectionResolution ==
    /\ (last.op = "buffer_write" /\ "Queue" \in singletons) =>
          LET k == Usage(last.u, "Buffer")
              m == Holding(last.pre, {Usage(last.u, "BufferWrite"), DataKey, Indirect(k)})
          IN  /\ last.panic <=> \E e \in m : ~Has(last.pre, TargetOf(last.pre, e, k), k)
              /\ \A c \in last.writes :
                    /\ c.src \in m
                    /\ c.dst = TargetOf(last.pre, c.src, k)
                    /\ Has(last.pre, c.dst, k)
                    /\ is_ready(last.pre[c.dst][k])
              /\ ~last.panic =>
                    \A e \in m :
                        (\E c \in last.writes : c.src = e)
                            <=> /\ get_changed(last.pre[e][DataKey])
                                /\ is_ready(last.pre[TargetOf(last.pre, e, k)][k])
    /\ (last.op = "texture_write" /\ "Queue" \in singletons) =>
          LET k == Usage(last.u, "Texture")
              dk == Usage(last.u, "TextureDescriptor")
              m == Holding(last.pre, {Usage(last.u, "TextureWrite"), DataKey,
                                      Indirect(k), Indirect(dk)})
          IN  /\ last.panic <=>
                    \E e \in m : \/ ~Has(last.pre, TargetOf(last.pre, e, k), k)
                                 \/ ~Has(last.pre, TargetOf(last.pre, e, dk), dk)
              /\ \A c \in last.writes :
                    /\ c.src \in m
                    /\ c.dst = TargetOf(last.pre, c.src, k)
                    /\ c.texture = last.pre[c.dst][k].v
                    /\ c.extent = last.pre[TargetOf(last.pre, c.src, dk)][dk].val
              /\ ~last.panic =>
                    \A e \in m :
                        (\E c \in last.writes : c.src = e)
                            <=> /\ get_changed(last.pre[e][DataKey])
                                /\ is_ready(last.pre[TargetOf(last.pre, e, k)][k])
    /\ last.op = "create_texture_views" =>
          LET k == Usage(last.u, "Texture")
              t == TargetOf(last.pre, last.e, k)
          IN  /\ last.panic <=> ~Has(last.pre, t, k)
              /\ (last.calls = 1) =>
                    /\ is_ready(last.pre[t][k])
                    /\ LastCell(world).v.of = last.pre[t][k].v
    /\ last.op = "staging_belt_write_thread_local" =>
          LET ks == {StagingBeltKey(last.u), StagingBeltChangedKey(last.u),
                     Usage(last.u, "Buffer"), CommandBuffersKey}
              unresolved(e) ==
                  \E k \in ks : ~Has(last.pre, TargetOf(last.pre, e, k), k)
          IN  /\ \A i \in 1..Len(last.visited) :
                    unresolved(last.visited[i]) => (last.panic /\ i = Len(last.visited))
              /\ \A c \in last.writes :
                    /\ ~unresolved(c.src)
                    /\ c.dst = TargetOf(last.pre, c.src, Usage(last.u, "Buffer"))
                    /\ is_ready(last.pre[c.dst][Usage(last.u, "Buffer")])
                    /\ c.belt = last.pre[TargetOf(last.pre, c.src, StagingBeltKey(last.u))]
                                        [StagingBeltKey(last.u)].staging_belt.v

(* entity 2 writes through its indirect component to the Ready buffer of   *)
(* entity 1 while its own buffer is Pending                                *)
C8_Witness ==
    /\ last.op = "buffer_write"
    /\ \E c \in last.writes :
          /\ c.src = 2 /\ c.dst = 1
          /\ is_pending(last.pre[2][c.k])
          /\ is_ready(last.pre[1][c.k])

(* a buffer_write run whose indirect component names an entity without a   *)
(* buffer panics                                                           *)
C8_WitnessPanic ==
    /\ last.op = "buffer_write"
    /\ last.panic
    /\ last.pre = IndirectWriteWorld(1, FALSE)

ZeroDim(size) ==
    size.width = 0 \/ size.height = 0 \/ size.depth_or_array_layers = 0

(* C9: with a Device in the world, a create_textures run on a descriptor    *)
(* with a zero width, height or depth_or_array_layers makes no creation    *)
(* call and leaves the world as it was, however often it is run; such a    *)
(* descriptor always has its creation still outstanding (cell Pending or   *)
(* flag set), a resize leaves the flag set, and a run that finds all three *)
(* dimensions positive with the creation outstanding makes exactly one     *)
(* creation call, sets the cell Ready and clears the flag.                 *)
C9_ZeroDimensionGuard ==
    /\ (last.op = "create_textures" /\ "Device" \in singletons) =>
          /\ ~last.panic
          /\ ZeroDim(LastDesc(last.pre).val) =>
                (last.calls = 0 /\ world = last.pre)
          /\ (~ZeroDim(LastDesc(last.pre).val) /\ Triggered(last.pre)) =>
                /\ last.calls = 1
                /\ LastCell(world) = Ready([size |-> LastDesc(last.pre).val])
                /\ ~get_changed(LastDesc(world))
    /\ \A e \in Entities, u \in Usages :
          (Has(world, e, Usage(u, "TextureDescriptor")) /\ Has(world, e, Usage(u, "Texture"))
           /\ ZeroDim(world[e][Usage(u, "TextureDescriptor")].val))
          => \/ is_pending(world[e][Usage(u, "Texture")])
             \/ get_changed(world[e][Usage(u, "TextureDescriptor")])
    /\ (last.op = "resize_texture") =>
          get_changed(world[last.e][Usage(last.u, "TextureDescriptor")])

(* a second run in a row on a pending texture whose width is 0 *)
C9_Witness ==
    /\ last.op = "create_textures"
    /\ last.rep.is
    /\ LastDesc(last.pre).val.width = 0
    /\ LastDesc(last.pre).val.height > 0
    /\ LastDesc(last.pre).val.depth_or_array_layers > 0
    /\ Triggered(last.pre)
    /\ last.calls = 0
    /\ last.rep.calls = 0

LastSourceTexture(w) ==
    w[w[last.e][Indirect(Usage(last.u, "Texture"))]][Usage(last.u, "Texture")]

(* C10: a create_texture_views run whose indirectly referenced texture     *)
(* cell is not Ready creates no view and leaves the world as it was; a run *)
(* that creates a view found the texture cell Ready and made the view from *)
(* the texture that cell held.                                             *)
C10_ViewWaitsForTexture ==
    (last.op = "create_texture_views" /\ ~last.panic
        /\ Has(last.pre, last.pre[last.e][Indirect(Usage(last.u, "Texture"))],
               Usage(last.u, "Texture"))) =>
        /\ ~is_ready(LastSourceTexture(last.pre)) =>
              (last.calls = 0 /\ world = last.pre)
        /\ (last.calls = 1) =>
              /\ is_ready(LastSourceTexture(last.pre))
              /\ LastCell(world).v.of = LastSourceTexture(last.pre).v

(* a run on a pending view with its flag set while the texture is Pending *)
C10_Witness ==
    /\ last.op = "create_texture_views"
    /\ ~last.panic
    /\ is_pending(LastCell(last.pre))
    /\ get_changed(LastDesc(last.pre))
    /\ is_pending(LastSourceTexture(last.pre))
    /\ last.calls = 0
    /\ get_changed(LastDesc(world))


(* C11: a buffer_write run (with a Queue, without a panic) issues, for      *)
(* every matching entity whose value is dirty and whose buffer is Ready,   *)
(* exactly one queue write, to that buffer, carrying the value's bytes at  *)
(* the offset of the entity's BufferWriteComponent, and leaves the data    *)
(* flag false; it issues no other write.                                   *)
C11_DirectWrite ==
    (last.op = "buffer_write" /\ "Queue" \in singletons /\ ~last.panic) =>
        LET k == Usage(last.u, "Buffer")
            m == Holding(last.pre, {Usage(last.u, "BufferWrite"), DataKey, Indirect(k)})
            due == {e \in m : /\ get_changed(last.pre[e][DataKey])
                              /\ is_ready(last.pre[TargetOf(last.pre, e, k)][k])}
        IN  /\ last.writes =
                  {[src |-> e, dst |-> TargetOf(last.pre, e, k), k |-> k,
                    offset |-> last.pre[e][Usage(last.u, "BufferWrite")],
                    bytes |-> to_bytes(last.pre[e][DataKey].val)] : e \in due}
            /\ Cardinality(last.writes) = Cardinality(due)
            /\ \A e \in due : ~get_changed(world[e][DataKey])

(* the value 1 written at offset 1 *)
C11_Witness ==
    /\ last.op = "buffer_write"
    /\ ~last.panic
    /\ \E c \in last.writes :
          /\ c.offset = 1
          /\ c.bytes = <<1, 0>>
          /\ get_changed(last.pre[c.src][DataKey])
          /\ ~get_changed(world[c.src][DataKey])


(* C12: in a buffer_write or texture_write run (with a Queue), a matching  *)
(* entity whose value is dirty and whose destination cell is Pending or    *)
(* Dropped gets no queue write and keeps its data flag set, and the run    *)
(* panics only when some indirect component cannot be resolved.            *)
C12_DeferredWrite ==
    (last.op \in {"buffer_write", "texture_write"} /\ "Queue" \in singletons) =>
        LET k == IF last.op = "buffer_write" THEN Usage(last.u, "Buffer")
                 ELSE Usage(last.u, "Texture")
            ks == IF last.op = "buffer_write"
                  THEN {Usage(last.u, "BufferWrite"), DataKey, Indirect(k)}
                  ELSE {Usage(last.u, "TextureWrite"), DataKey, Indirect(k),
                        Indirect(Usage(last.u, "TextureDescriptor"))}
            m == Holding(last.pre, ks)
            resolved(e) ==
                \A ik \in {x \in ks : Len(x) = 3} :
                    Has(last.pre, last.pre[e][ik], <<ik[1], ik[3]>>)
        IN  /\ \A e \in m :
                  (/\ resolved(e)
                   /\ get_changed(last.pre[e][DataKey])
                   /\ last.pre[TargetOf(last.pre, e, k)][k].st \in {"Pending", "Dropped"})
                  => /\ ~\E c \in last.writes : c.src = e
                     /\ get_changed(world[e][DataKey])
                     /\ world[e] = last.pre[e]
            /\ last.panic => \E e \in m : ~resolved(e)

(* a dirty value whose buffer is Dropped: no write, flag kept, no panic *)
C12_Witness ==
    /\ last.op = "buffer_write"
    /\ ~last.panic
    /\ last.writes = {}
    /\ Has(last.pre, 1, Usage(last.u, "Buffer")) /\ Has(last.pre, 2, DataKey)
    /\ last.pre[1][Usage(last.u, "Buffer")] = Dropped
    /\ get_changed(last.pre[2][DataKey])
    /\ get_changed(world[2][DataKey])

(* a dirty value whose texture is Pending: no write, flag kept, no panic *)
C12_WitnessTexture ==
    /\ last.op = "texture_write"
    /\ ~last.panic
    /\ last.writes = {}
    /\ Has(last.pre, 1, Usage(last.u, "Texture")) /\ Has(last.pre, 2, DataKey)
    /\ is_pending(last.pre[1][Usage(last.u, "Texture")])
    /\ get_changed(world[2][DataKey])


----------------------------------------------------------------------------
(* The prepare pass of a frame: the creation systems, the write systems    *)
(* and the submission, with the values changing in between.  Every frame   *)
(* runs each of the systems, so each is taken again and again.             *)
FrameInit ==
    /\ \/ world = BoidsWorld
       \/ \E t \in Entities, has \in BOOLEAN : world = IndirectWriteWorld(t, has)
       \/ \E size \in {Len(to_bytes(0)), Len(to_bytes(0)) + 1} : world = StagedWorld(size)
       \/ \E tbuf \in Entities : world = SharedBeltWorld(tbuf)
    /\ singletons = AllSingletons
    /\ panicked = FALSE
    /\ manager = [id \in {} |-> NewStagingBelt(0)]
    /\ id_head = 0
    /\ callers = NoCallers
    /\ passes = NoPasses
    /\ last = InitRun(world)

FrameNext ==
    \/ \E e \in Entities, u \in Usages : create_buffers(e, u)
    \/ \E u \in Usages : buffer_write(u)
    \/ \E u \in Usages : create_staging_belt_thread_local(u)
    \/ \E u \in Usages : staging_belt_write_thread_local(u)
    \/ \E e \in Entities : submit_command_buffers(e)
    \/ \E e \in Entities, v \in Vals : mutate_data(e, v)

FrameFairness ==
    /\ \A e \in Entities, u \in Usages : WF_vars(create_buffers(e, u))
    /\ \A u \in Usages :
          /\ WF_vars(buffer_write(u))
          /\ WF_vars(create_staging_belt_thread_local(u))
          /\ WF_vars(staging_belt_write_thread_local(u))
    /\ \A e \in Entities : WF_vars(submit_command_buffers(e))

FrameSpec == FrameInit /\ [][FrameNext]_vars /\ FrameFairness

(* entity e holds a dirty value for the direct buffer write of usage u and *)
(* the buffer its indirect component names is Ready                        *)
DirectWriteDue(e, u) ==
    /\ e \in BufferWriteMatches(u)
    /\ get_changed(world[e][DataKey])
    /\ Resolves(e, Usage(u, "Buffer"))
    /\ is_ready(get_indirect(e, Usage(u, "Buffer")))

(* entity e holds a dirty value for the staged write of usage u and the    *)
(* belt and buffer its indirect components name are Ready                  *)
StagedWriteDue(e, u) ==
    /\ e \in StagedWriteMatches(u)
    /\ get_changed(world[e][DataKey])
    /\ Has(world, TargetOf(world, e, StagingBeltKey(u)), StagingBeltKey(u))
    /\ is_ready(world[TargetOf(world, e, StagingBeltKey(u))][StagingBeltKey(u)].staging_belt)
    /\ Has(world, TargetOf(world, e, Usage(u, "Buffer")), Usage(u, "Buffer"))
    /\ is_ready(world[TargetOf(world, e, Usage(u, "Buffer"))][Usage(u, "Buffer")])

(* the last run was the system op for usage u and wrote the value of e *)
Written(op, e, u) ==
    /\ last.op = op
    /\ last.u = u
    /\ \E c \in last.writes : c.src = e

(* C13: with the creation, write and submission systems run every frame, a *)
(* dirty value whose destination of usage u is Ready is eventually written *)
(* to that destination by the write system of usage u (buffer_write or     *)
(* staging_belt_write_thread_local), unless a system panics.               *)
C13_RetryUntilSuccess ==
    \A e \in Entities, u \in Usages :
        /\ DirectWriteDue(e, u) ~> (Written("buffer_write", e, u) \/ panicked)
        /\ StagedWriteDue(e, u)
              ~> (Written("staging_belt_write_thread_local", e, u) \/ panicked)

(***************************************************************************)
(* Staged writes: what one run of staging_belt_write_thread_local does to  *)
(* each value.                                                             *)
(***************************************************************************)

(* in world w, entity e matches the staged write query of usage u, its     *)
(* four indirect components resolve, its value is dirty and the belt and   *)
(* the buffer they name are Ready                                          *)
StagedDueIn(w, e, u) ==
    /\ Has(w, e, StagingBeltWriteKey(u))
    /\ Has(w, e, DataKey)
    /\ Has(w, e, Indirect(StagingBeltKey(u)))
    /\ Has(w, e, Indirect(StagingBeltChangedKey(u)))
    /\ Has(w, e, Indirect(Usage(u, "Buffer")))
    /\ Has(w, e, Indirect(CommandBuffersKey))
    /\ Has(w, TargetOf(w, e, StagingBeltKey(u)), StagingBeltKey(u))
    /\ Has(w, TargetOf(w, e, StagingBeltChangedKey(u)), StagingBeltChangedKey(u))
    /\ Has(w, TargetOf(w, e, Usage(u, "Buffer")), Usage(u, "Buffer"))
    /\ Has(w, TargetOf(w, e, CommandBuffersKey), CommandBuffersKey)
    /\ get_changed(w[e][DataKey])
    /\ is_ready(w[TargetOf(w, e, StagingBeltKey(u))][StagingBeltKey(u)].staging_belt)
    /\ is_ready(w[TargetOf(w, e, Usage(u, "Buffer"))][Usage(u, "Buffer")])

(* the id held by the belt the staged write of e names *)
BeltIdOf(w, e, u) == w[TargetOf(w, e, StagingBeltKey(u))][StagingBeltKey(u)].staging_belt.v

(* the command buffers the last run appended to the queue of entity t *)
Appended(t) ==
    SubSeq(world[t][CommandBuffersKey], Len(last.pre[t][CommandBuffersKey]) + 1,
           Len(world[t][CommandBuffersKey]))

(* the effects of the staged write of e in the last run: one write_buffer  *)
(* call on the belt, one command buffer appended to the target queue, the  *)
(* data flag cleared, the belt flag set                                    *)
StagedEffects(e, u) ==
    LET w == last.pre
        tcmd == TargetOf(w, e, CommandBuffersKey)
        tflag == TargetOf(w, e, StagingBeltChangedKey(u))
    IN  /\ Cardinality({c \in last.writes : c.src = e}) = 1
        /\ \A c \in last.writes : c.src = e => c.belt = BeltIdOf(w, e, u)
        /\ Cardinality({i \in DOMAIN Appended(tcmd) : Appended(tcmd)[i].src = e}) = 1
        /\ ~get_changed(world[e][DataKey])
        /\ world[tflag][StagingBeltChangedKey(u)]

(* C14: in a run of staging_belt_write_thread_local that has a Device and   *)
(* does not panic, every dirty value whose belt and target buffer are      *)
(* Ready gets exactly one write_buffer call on its belt id and one command *)
(* buffer appended to its target queue, its data flag is cleared and the   *)
(* belt flag is set (not cleared).                                         *)
C14_StagedWriteEffects ==
    (/\ last.op = "staging_belt_write_thread_local"
     /\ "Device" \in singletons
     /\ ~last.panic) =>
        \A e \in Entities : StagedDueIn(last.pre, e, last.u) => StagedEffects(e, last.u)

(* the entities on which the last staged write run reached the             *)
(* write_buffer call: visited by the loop, dirty, belt and buffer Ready    *)
ReachedWriteBuffer ==
    {e \in Entities :
        /\ \E i \in DOMAIN last.visited : last.visited[i] = e
        /\ StagedDueIn(last.pre, e, last.u)}

(* C15: in every staging_belt_write_thread_local write the size passed to  *)
(* the belt equals the length of the serialized bytes copied into the      *)
(* region, so a run that reaches write_buffer on a known belt id does not  *)
(* fail in the copy.                                                       *)
C15_RegionSizedToBytes ==
    last.op = "staging_belt_write_thread_local" =>
        \A e \in ReachedWriteBuffer :
            /\ last.pre[e][StagingBeltWriteKey(last.u)].size
                   = Len(to_bytes(last.pre[e][DataKey].val))
            /\ BeltIdOf(last.pre, e, last.u) \in DOMAIN manager =>
                   \E c \in last.writes : c.src = e /\ c.size = Len(c.bytes)

(***************************************************************************)
(* The life of a belt in the manager.                                      *)
(***************************************************************************)

FinishOrRecall == {"staging_belt_finish_thread_local", "staging_belt_recall_thread_local"}

(* C16: no step removes a belt from the manager's map; a finish or recall  *)
(* run keeps the map's keys and changes no belt other than the ones it is  *)
(* called on; and a belt that has been through write, finish and recall    *)
(* (it holds a recalled chunk) takes the next write_buffer call made on it.*)
C16_BeltLifecycle ==
    [][/\ DOMAIN manager \subseteq DOMAIN manager'
       /\ last'.op \in FinishOrRecall =>
             /\ DOMAIN manager' = DOMAIN manager
             /\ \A id \in DOMAIN manager :
                   id \notin BeltIds(last'.u, BeltFlagged(last'.u)) =>
                       manager'[id] = manager[id]
       /\ last'.op = "staging_belt_write_thread_local" =>
             \A e \in ReachedWriteBuffer' :
                 LET id == BeltIdOf(last'.pre, e, last'.u)
                 IN  (/\ id \in DOMAIN manager
                      /\ manager[id].free
                      /\ last'.pre[e][StagingBeltWriteKey(last'.u)].size
                             = Len(to_bytes(last'.pre[e][DataKey].val))) =>
                         /\ \E c \in last'.writes : c.src = e /\ c.belt = id
                         /\ id \in DOMAIN manager'
                         /\ manager'[id].active]_vars

(* a write accepted by a belt that had been written, finished and recalled *)
C16_Witness ==
    /\ last.op = "staging_belt_write_thread_local"
    /\ \E c \in last.writes :
          /\ c.belt \in DOMAIN last.m
          /\ last.m[c.belt].free
          /\ ~last.m[c.belt].active
          /\ c.belt \in DOMAIN manager
          /\ manager[c.belt].active

(* C17: a finish or recall run makes no manager call for, and changes no   *)
(* component of, a belt entity whose belt flag is clear or whose belt cell *)
(* is not Ready; the manager's entry of such a Ready belt is unchanged.    *)
C17_NoOpWithoutWrites ==
    [][(last'.op \in FinishOrRecall /\ ~last'.panic) =>
          \A e \in BeltMatches(last'.u) :
              LET cell == world[e][StagingBeltKey(last'.u)].staging_belt
              IN  (~world[e][StagingBeltChangedKey(last'.u)] \/ ~is_ready(cell)) =>
                      /\ world'[e] = world[e]
                      /\ is_ready(cell) =>
                            /\ [finish |-> cell.v] \notin last'.writes
                            /\ [recall |-> cell.v] \notin last'.writes
                            /\ cell.v \in DOMAIN manager =>
                                  manager'[cell.v] = manager[cell.v]]_vars

(* a finish or recall run over a Ready belt that received no write *)
C17_Witness ==
    /\ last.op \in FinishOrRecall
    /\ ~last.panic
    /\ last.writes = {}
    /\ \E e \in Entities :
          /\ Has(last.pre, e, StagingBeltKey(last.u))
          /\ Has(last.pre, e, StagingBeltChangedKey(last.u))
          /\ is_ready(last.pre[e][StagingBeltKey(last.u)].staging_belt)
          /\ ~last.pre[e][StagingBeltChangedKey(last.u)]
          /\ world[e] = last.pre[e]

(***************************************************************************)
(* The belt systems in frame order: creation and producers, then the       *)
(* staged write, belt finish, submission and belt recall, each once.       *)
(***************************************************************************)

BeltFrameInit ==
    /\ \/ world = StagedWorld(Len(to_bytes(0)))
       \/ \E tbuf \in Entities : world = SharedBeltWorld(tbuf)
    /\ singletons = AllSingletons
    /\ panicked = FALSE
    /\ manager = [id \in {} |-> NewStagingBelt(0)]
    /\ id_head = 0
    /\ callers = NoCallers
    /\ passes = NoPasses
    /\ last = InitRun(world)

(* between two frames' write phases: no write, finish or submission is the *)
(* last system run                                                         *)
Preparing ==
    last.op \notin {"staging_belt_write_thread_local", "submit_command_buffers"}
                       \cup {"staging_belt_finish_thread_local"}

BeltFrameNext ==
    \/ Preparing /\ \E e \in Entities, u \in Usages : create_buffers(e, u)
    \/ Preparing /\ \E u \in Usages : create_staging_belt_thread_local(u)
    \/ Preparing /\ \E e \in Entities, v \in Vals : mutate_data(e, v)
    \/ Preparing /\ \E u \in Usages : staging_belt_write_thread_local(u)
    \/ /\ last.op = "staging_belt_write_thread_local"
       /\ staging_belt_finish_thread_local(last.u)
    \/ /\ last.op = "staging_belt_finish_thread_local"
       /\ \E e \in Entities : submit_command_buffers(e)
    \/ /\ last.op = "submit_command_buffers"
       /\ \E u \in Usages : staging_belt_recall_thread_local(u)

BeltFrameSpec == BeltFrameInit /\ [][BeltFrameNext]_vars

(* the belt ids of the command buffers in the sequence q *)
BeltsOf(q) == {q[i].belt : i \in DOMAIN q}

(* the belt ids of the command buffers in the queues of world w *)
QueuedBelts(w) ==
    UNION {BeltsOf(w[e][CommandBuffersKey]) :
              e \in {x \in Entities : Has(w, x, CommandBuffersKey)}}

(* the belt ids of the command buffers a submission run handed over *)
SubmittedBelts(run) == UNION {BeltsOf(c.submit) : c \in run.writes}

(* the entities holding a belt cell of usage u whose id is in ids *)
BeltHolders(w, u, ids) ==
    {e \in Entities :
        /\ Has(w, e, StagingBeltKey(u))
        /\ Has(w, e, StagingBeltChangedKey(u))
        /\ is_ready(w[e][StagingBeltKey(u)].staging_belt)
        /\ w[e][StagingBeltKey(u)].staging_belt.v \in ids}

(* C18: under the frame order write, finish, submit, recall, every belt    *)
(* that received a write in the frame gets one finish call in the finish   *)
(* run, which leaves its belt flag set, and one recall call in the recall  *)
(* run after the submission, which clears the flag; submission leaves the  *)
(* flags alone and no belt flag is set when the recall run ends.           *)
C18_FinishSubmitRecall ==
    [][/\ last'.op = "staging_belt_write_thread_local" =>
             \A c \in last'.writes :
                 \A e \in BeltHolders(world', last'.u, {c.belt}) :
                     world'[e][StagingBeltChangedKey(last'.u)]
       /\ last'.op = "staging_belt_finish_thread_local" =>
             /\ last.op = "staging_belt_write_thread_local"
             /\ \A id \in QueuedBelts(world) : [finish |-> id] \in last'.writes
             /\ Cardinality(last'.writes) = Cardinality(QueuedBelts(world))
             /\ \A e \in BeltHolders(world, last'.u, QueuedBelts(world)) :
                   world'[e][StagingBeltChangedKey(last'.u)]
       /\ last'.op = "submit_command_buffers" =>
             /\ last.op = "staging_belt_finish_thread_local"
             /\ \A e \in Entities, u \in Usages :
                   Has(world, e, StagingBeltChangedKey(u)) =>
                       world'[e][StagingBeltChangedKey(u)]
                           = world[e][StagingBeltChangedKey(u)]
       /\ last'.op = "staging_belt_recall_thread_local" =>
             /\ last.op = "submit_command_buffers"
             /\ \A id \in SubmittedBelts(last) : [recall |-> id] \in last'.writes
             /\ Cardinality(last'.writes) = Cardinality(SubmittedBelts(last))
             /\ \A e \in Entities :
                   Has(world', e, StagingBeltChangedKey(last'.u)) =>
                       ~world'[e][StagingBeltChangedKey(last'.u)]]_vars

(* a finish run after a frame in which two values were written through    *)
(* one belt: one finish call, the belt flag still set                      *)
C18_Witness ==
    /\ last.op = "staging_belt_finish_thread_local"
    /\ Cardinality(last.writes) = 1
    /\ \E e \in Entities :
          /\ Has(world, e, CommandBuffersKey)
          /\ Len(world[e][CommandBuffersKey]) = 2
          /\ world[e][CommandBuffersKey][1].src # world[e][CommandBuffersKey][2].src
          /\ world[e][CommandBuffersKey][1].belt = world[e][CommandBuffersKey][2].belt
          /\ [finish |-> world[e][CommandBuffersKey][1].belt] \in last.writes
    /\ \A e \in BeltHolders(world, last.u, QueuedBelts(world)) :
          world[e][StagingBeltChangedKey(last.u)]

(* the end of such a frame: the belt recalled and its flag clear *)
C18_WitnessRecall ==
    /\ last.op = "staging_belt_recall_thread_local"
    /\ Cardinality(last.writes) = 1
    /\ \A e \in Entities :
          Has(world, e, StagingBeltChangedKey(last.u)) =>
              /\ last.pre[e][StagingBeltChangedKey(last.u)]
              /\ ~world[e][StagingBeltChangedKey(last.u)]

(***************************************************************************)
(* Belt ids: create_staging_belt called from several threads on two        *)
(* managers, next to the creation system.                                  *)
(***************************************************************************)

IdInit ==
    /\ world = StagedWorld(Len(to_bytes(0)))
    /\ singletons = AllSingletons
    /\ panicked = FALSE
    /\ manager = [id \in {} |-> NewStagingBelt(0)]
    /\ id_head = 0
    /\ callers = NoCallers
    /\ passes = NoPasses
    /\ last = InitRun(world)

IdNext ==
    \/ \E t \in Threads, mgr \in Managers : StagingBelt_new(t, mgr)
    \/ \E t \in Threads : fetch_add(t)
    \/ \E t \in Threads : insert(t)
    \/ NoCallIn(1) /\ \E u \in Usages : create_staging_belt_thread_local(u)

IdSpec == IdInit /\ [][IdNext]_vars

(* the ids held by the Ready belt cells of the world *)
WorldBeltIds ==
    {world[e][StagingBeltKey(u)].staging_belt.v :
        e \in {x \in Entities : \E u2 \in Usages :
                  /\ Has(world, x, StagingBeltKey(u2))
                  /\ is_ready(world[x][StagingBeltKey(u2)].staging_belt)},
        u \in {u2 \in Usages : \E x \in Entities :
                  /\ Has(world, x, StagingBeltKey(u2))
                  /\ is_ready(world[x][StagingBeltKey(u2)].staging_belt)}}

(* the ids returned by the finished direct calls on manager mgr *)
CallIds(mgr) == {c.id : c \in {d \in callers.returned : d.mgr = mgr}}

(* C19: the ids returned by create_staging_belt calls, on either manager   *)
(* and from any thread, are pairwise different and different from the ids  *)
(* the creation system handed out; a call returns an id larger than every  *)
(* id that had been returned when it began; and no insert replaces an      *)
(* entry: each manager's map holds exactly the ids created on it.          *)
C19_UniqueIncreasingIds ==
    /\ \A c, d \in callers.returned : c # d => c.id # d.id
    /\ \A c \in callers.returned :
          /\ c.id \notin WorldBeltIds
          /\ c.id < id_head
          /\ \A x \in c.seen : c.id > x
    /\ ~callers.overwrote
    /\ DOMAIN manager = WorldBeltIds \cup CallIds(1)
    /\ DOMAIN callers.other = CallIds(2)
    /\ Cardinality(DOMAIN manager) + Cardinality(DOMAIN callers.other)
           = Cardinality(callers.returned) + Cardinality(WorldBeltIds)

(* two overlapping calls from different threads on different managers, and *)
(* a later call that began after both had returned, next to a belt of the  *)
(* world                                                                   *)
C19_Witness ==
    /\ \E c, d, l \in callers.returned :
          /\ c.t # d.t
          /\ c.mgr # d.mgr
          /\ c.id \notin d.seen
          /\ d.id \notin c.seen
          /\ {c.id, d.id} \subseteq l.seen
          /\ l.id > c.id
          /\ l.id > d.id
    /\ WorldBeltIds # {}

(***************************************************************************)
(* The manager's methods called with belt ids the manager may not hold.    *)
(***************************************************************************)

ManagerInit ==
    /\ world = StagedWorld(Len(to_bytes(0)))
    /\ singletons = AllSingletons
    /\ panicked = FALSE
    /\ manager = [id \in {} |-> NewStagingBelt(0)]
    /\ id_head = 0
    /\ callers = NoCallers
    /\ passes = NoPasses
    /\ last = InitRun(world)

ManagerNext ==
    \/ \E u \in Usages : create_staging_belt_thread_local(u)
    \/ \E mgr \in Managers, id \in BeltIdRange,
          size \in {Len(to_bytes(0)), Len(to_bytes(0)) + 1} :
          write_buffer(mgr, id, size, to_bytes(0))
    \/ \E mgr \in Managers, id \in BeltIdRange : finish(mgr, id)
    \/ \E mgr \in Managers, id \in BeltIdRange : recall(mgr, id)

ManagerSpec == ManagerInit /\ [][ManagerNext]_vars

ManagerCalls == {"write_buffer", "finish", "recall"}

(* C20: a write_buffer, finish or recall call with a belt id that is not   *)
(* in the manager's map panics and leaves both managers' maps as they      *)
(* were: no belt is created for the id.                                    *)
C20_UnknownIdPanics ==
    [][(last' # last /\ last'.op \in ManagerCalls) =>
          \A c \in last'.writes :
              c.belt \notin DOMAIN MapOf(c.mgr) =>
                  /\ panicked'
                  /\ last'.panic
                  /\ manager' = manager
                  /\ callers'.other = callers.other
                  /\ c.belt \notin DOMAIN MapOf(c.mgr)']_vars

(* a call with an id that only the other manager holds has panicked *)
C20_Witness ==
    /\ last.op \in ManagerCalls
    /\ last.panic
    /\ panicked
    /\ \E c \in last.writes :
          /\ c.belt \notin DOMAIN MapOf(c.mgr)
          /\ c.belt \in DOMAIN MapOf(3 - c.mgr)

(* a call on a manager that holds a belt, with another id, has panicked *)
C20_WitnessOtherId ==
    /\ last.op \in ManagerCalls
    /\ last.panic
    /\ \E c \in last.writes :
          /\ c.belt \notin DOMAIN MapOf(c.mgr)
          /\ DOMAIN MapOf(c.mgr) # {}

(***************************************************************************)
(* The write, submission and creation systems in worlds that lack the      *)
(* Device or the Queue.                                                    *)
(***************************************************************************)

SingletonInit ==
    /\ \/ world = IndirectWriteWorld(1, TRUE)
       \/ world = TextureWriteWorld(1, 1)
       \/ world = StagedWorld(Len(to_bytes(0)))
    /\ singletons \in {AllSingletons \ {"Device"}, AllSingletons \ {"Queue"}}
    /\ panicked = FALSE
    /\ manager = [id \in {} |-> NewStagingBelt(0)]
    /\ id_head = 0
    /\ callers = NoCallers
    /\ passes = NoPasses
    /\ last = InitRun(world)

SingletonNext ==
    \/ \E e \in Entities, u \in Usages : create_buffers(e, u)
    \/ \E e \in Entities, u \in Usages : create_textures(e, u)
    \/ \E u \in Usages : buffer_write(u)
    \/ \E u \in Usages : texture_write(u)
    \/ \E u \in Usages : create_staging_belt_thread_local(u)
    \/ \E u \in Usages : staging_belt_write_thread_local(u)
    \/ \E e \in Entities : submit_command_buffers(e)
    \/ \E e \in Entities, v \in Vals : mutate_data(e, v)

SingletonSpec == SingletonInit /\ [][SingletonNext]_vars

NeedQueue == {"buffer_write", "texture_write", "submit_command_buffers"}

(* C21: a run of buffer_write, texture_write or submit_command_buffers in  *)
(* a world without a Queue, a run of staging_belt_write_thread_local in a  *)
(* world without a Device, and a creation run that is due in a world       *)
(* without a Device, end in a panic.                                       *)
C21_MissingSingletonFatal ==
    /\ (last.op \in NeedQueue /\ "Queue" \notin singletons) => last.panic
    /\ (last.op = "staging_belt_write_thread_local" /\ "Device" \notin singletons)
          => last.panic
    /\ (/\ last.op \in {"create_buffers", "create_textures"}
        /\ "Device" \notin singletons
        /\ Triggered(last.pre)) => last.panic

(***************************************************************************)
(* Submission.                                                             *)
(***************************************************************************)

(* sequence p is a prefix of sequence q *)
IsPrefix(p, q) == Len(p) <= Len(q) /\ SubSeq(q, 1, Len(p)) = p

(* C22: a submit_command_buffers run in a world with a Queue submits the   *)
(* entity's whole command buffer queue, in order, in one call and leaves   *)
(* it empty, without touching another entity's queue; every other step     *)
(* only appends to a queue, so no buffer leaves a queue unsubmitted and    *)
(* none is submitted a second time.                                        *)
C22_DrainedExactlyOnce ==
    [][\A e \in Entities :
          Has(world, e, CommandBuffersKey) =>
              /\ Has(world', e, CommandBuffersKey)
              /\ IF /\ last'.op = "submit_command_buffers"
                    /\ last'.e = e
                    /\ "Queue" \in singletons
                 THEN /\ world'[e][CommandBuffersKey] = <<>>
                      /\ last'.writes = {[submit |-> world[e][CommandBuffersKey]]}
                 ELSE /\ IsPrefix(world[e][CommandBuffersKey], world'[e][CommandBuffersKey])
                      /\ last'.op = "submit_command_buffers" =>
                            world'[e][CommandBuffersKey] = world[e][CommandBuffersKey]]_vars

(* a submission of two command buffers of different sources, in the order  *)
(* they were appended, that left the queue empty                           *)
C22_Witness ==
    /\ last.op = "submit_command_buffers"
    /\ Has(world, last.e, CommandBuffersKey)
    /\ world[last.e][CommandBuffersKey] = <<>>
    /\ \E c \in last.writes :
          /\ Len(c.submit) = 2
          /\ c.submit = last.pre[last.e][CommandBuffersKey]
          /\ c.submit[1].src # c.submit[2].src

(***************************************************************************)
(* Invalidation of the surface texture and its view.                       *)
(***************************************************************************)

ViewConsumers == {"surface_texture_view_query", "surface_texture_view_drop"}

C23_WitnessQuery ==
    /\ last.op = "surface_texture_query"
    /\ is_ready(last.pre[last.e][SurfaceKey])
    /\ last.pre[last.e][SurfaceTextureKey].val = "Some"
    /\ world[last.e][SurfaceTextureKey] = Changed("None", TRUE)

----------------------------------------------------------------------------
(* System bodies one lock operation at a time.  The components are behind  *)
(* locks of their own, so legion runs systems that only read components    *)
(* in parallel and their bodies interleave between two lock operations.    *)
(* A pass is one run of a system body on one entity: create_buffers tests  *)
(* its trigger, creates under the write lock of the buffer cell, and       *)
(* clears the flag of the descriptor; the closure of buffer_write tests    *)
(* the flag and the buffer, reads the value and queues the write, and      *)
(* clears the flag of the value.  passes.log records the device and queue  *)
(* calls in the order they were made.                                      *)

NumPasses == 2

Pass(op, e, u, stage) == [op |-> op, e |-> e, u |-> u, stage |-> stage, pc |-> "start"]

PassIds == DOMAIN passes.run

(* the systems of a serial! stage start when the stages before have ended *)
StageOpen(p) ==
    \A q \in PassIds : passes.run[q].stage < passes.run[p].stage => passes.run[q].pc = "done"

At(p, op, pc) ==
    /\ ~panicked
    /\ p \in PassIds
    /\ passes.run[p].op = op
    /\ passes.run[p].pc = pc

Goto(p, pc) == [passes EXCEPT !.run[p].pc = pc]

Logged(p, pc, call) == [passes EXCEPT !.run[p].pc = pc, !.log = Append(@, call)]

create_buffers_trigger(p) ==
    /\ At(p, "create_buffers", "start")
    /\ StageOpen(p)
    /\ LET e == passes.run[p].e
           desc == Usage(passes.run[p].u, "BufferDescriptor")
           cell == Usage(passes.run[p].u, "Buffer")
       IN  IF ~is_pending(world[e][cell]) /\ ~get_changed(world[e][desc])
           THEN passes' = Goto(p, "done") /\ UNCHANGED panicked
           ELSE IF "Device" \notin singletons
           THEN passes' = Goto(p, "done") /\ panicked' = TRUE
           ELSE passes' = Goto(p, "act") /\ UNCHANGED panicked
    /\ UNCHANGED <<world, singletons, manager, id_head, callers, last>>

create_buffers_set_ready(p) ==
    /\ At(p, "create_buffers", "act")
    /\ LET e == passes.run[p].e
           desc == Usage(passes.run[p].u, "BufferDescriptor")
           cell == Usage(passes.run[p].u, "Buffer")
       IN  /\ world' = [world EXCEPT ![e][cell] = set_ready(@, world[e][desc].val)]
           /\ passes' = Logged(p, "clear",
                               [call |-> "create_buffer", e |-> e, u |-> passes.run[p].u,
                                desc |-> world[e][desc].val])
    /\ UNCHANGED <<singletons, panicked, manager, id_head, callers, last>>

create_buffers_set_changed(p) ==
    /\ At(p, "create_buffers", "clear")
    /\ LET e == passes.run[p].e
           desc == Usage(passes.run[p].u, "BufferDescriptor")
       IN  world' = [world EXCEPT ![e][desc] = set_changed(@, FALSE)]
    /\ passes' = Goto(p, "done")
    /\ UNCHANGED <<singletons, panicked, manager, id_head, callers, last>>

buffer_write_get_changed(p) ==
    /\ At(p, "buffer_write", "start")
    /\ StageOpen(p)
    /\ LET e == passes.run[p].e
           cell == Usage(passes.run[p].u, "Buffer")
       IN  IF "Queue" \notin singletons
           THEN passes' = Goto(p, "done") /\ UNCHANGED panicked
           ELSE IF ~Resolves(e, cell)
           THEN passes' = Goto(p, "done") /\ panicked' = TRUE
           ELSE IF get_changed(world[e][DataKey]) /\ is_ready(get_indirect(e, cell))
           THEN passes' = Goto(p, "act") /\ UNCHANGED panicked
           ELSE passes' = Goto(p, "done") /\ UNCHANGED panicked
    /\ UNCHANGED <<world, singletons, manager, id_head, callers, last>>

buffer_write_write_buffer(p) ==
    /\ At(p, "buffer_write", "act")
    /\ LET e == passes.run[p].e
       IN  passes' = Logged(p, "clear",
                            [call |-> "write_buffer", e |-> e, u |-> passes.run[p].u,
                             write |-> BufferWriteCall(passes.run[p].u, e)])
    /\ UNCHANGED <<world, singletons, panicked, manager, id_head, callers, last>>

buffer_write_set_changed(p) ==
    /\ At(p, "buffer_write", "clear")
    /\ world' = [world EXCEPT ![passes.run[p].e][DataKey] = set_changed(@, FALSE)]
    /\ passes' = Goto(p, "done")
    /\ UNCHANGED <<singletons, panicked, manager, id_head, callers, last>>

(* one buffer on entity 1, Pending or Ready with its descriptor changed *)
OneBufferWorld(cell, desc) ==
    OnEntity1(Usage(FrontBuffer, "BufferDescriptor") :> desc
              @@ Usage(FrontBuffer, "Buffer") :> cell)

(* one buffer on entity 1 and one value written to it *)
OneWriteWorld ==
    OnEntity1(assemble_buffer(FrontBuffer, 0) @@ assemble_buffer_data(FrontBuffer, 1, 0, 0))

(* the same creation system twice in one parallel stage *)
TwoCreations == [p \in 1..NumPasses |-> Pass("create_buffers", 1, FrontBuffer, 1)]

(* the buffer stages of the prepare_schedule of the boids demo *)
prepare_schedule ==
    <<Pass("create_buffers", 1, FrontBuffer, 1), Pass("create_buffers", 1, BackBuffer, 1),
      Pass("buffer_write", 1, FrontBuffer, 2), Pass("buffer_write", 1, BackBuffer, 2)>>

(* one creation and then one write, each the only consumer of its flag *)
OneConsumerEach ==
    <<Pass("create_buffers", 1, FrontBuffer, 1), Pass("buffer_write", 1, FrontBuffer, 2)>>

PassInit ==
    /\ \/ /\ \/ world = OneBufferWorld(Pending, Changed(0, FALSE))
             \/ world = OneBufferWorld(Ready(0), Changed(1, TRUE))
          /\ passes = [run |-> TwoCreations, log |-> <<>>]
       \/ /\ world = BoidsWorld
          /\ passes = [run |-> prepare_schedule, log |-> <<>>]
       \/ /\ world = OneWriteWorld
          /\ passes = [run |-> OneConsumerEach, log |-> <<>>]
    /\ singletons = AllSingletons
    /\ panicked = FALSE
    /\ manager = [id \in {} |-> NewStagingBelt(0)]
    /\ id_head = 0
    /\ callers = NoCallers
    /\ last = InitRun(world)

(* the producer changes one value while the passes run *)
Unproduced == last.op = "init"

PassNext ==
    \/ \E p \in PassIds : create_buffers_trigger(p)
    \/ \E p \in PassIds : create_buffers_set_ready(p)
    \/ \E p \in PassIds : create_buffers_set_changed(p)
    \/ \E p \in PassIds : buffer_write_get_changed(p)
    \/ \E p \in PassIds : buffer_write_write_buffer(p)
    \/ \E p \in PassIds : buffer_write_set_changed(p)
    \/ Unproduced /\ \E e \in Entities, v \in Vals : \E k \in Keys(e) : mutate_descriptor(e, k, v)
    \/ Unproduced /\ \E e \in Entities, v \in Vals : mutate_data(e, v)

PassSpec == PassInit /\ [][PassNext]_vars

(* the create_buffer calls made for the buffer of usage u on entity e *)
Creations(e, u) ==
    {i \in DOMAIN passes.log :
        /\ passes.log[i].call = "create_buffer"
        /\ passes.log[i].e = e
        /\ passes.log[i].u = u}

AllDone == \A p \in PassIds : passes.run[p].pc = "done"

CreatedBy == {<<passes.run[p].e, passes.run[p].u>> : p \in {q \in PassIds : passes.run[q].op = "create_buffers"}}

(* C24: when passes of create_buffers run concurrently or one after the    *)
(* other on one entity for one descriptor change (the producer made no     *)
(* further change), at most one create_buffer call is made for the buffer  *)
(* at any time and exactly one once the passes have ended.                 *)
C24_NoDoubleCreation ==
    (Unproduced /\ ~panicked) =>
        \A c \in CreatedBy :
            /\ Cardinality(Creations(c[1], c[2])) <= 1
            /\ AllDone => Cardinality(Creations(c[1], c[2])) = 1

(* the write_buffer calls queued for the buffer of usage u by entity e *)
QueueWrites(e, u) ==
    {i \in DOMAIN passes.log :
        /\ passes.log[i].call = "write_buffer"
        /\ passes.log[i].e = e
        /\ passes.log[i].u = u}

(* C26: in the boids demo, after one pass of prepare_schedule (no producer *)
(* acting meanwhile) the front and the back buffer are both Ready and each *)
(* has received exactly one write, of the bytes of the initial data, for   *)
(* every interleaving of the two buffer_write systems.                     *)
C26_BothBuffersWritten ==
    (last = InitRun(BoidsWorld) /\ AllDone /\ ~panicked) =>
        \A u \in {FrontBuffer, BackBuffer} :
            /\ is_ready(world[1][Usage(u, "Buffer")])
            /\ Cardinality(QueueWrites(1, u)) = 1
            /\ \A i \in QueueWrites(1, u) :
                  /\ passes.log[i].write.bytes = to_bytes(BoidsWorld[1][DataKey].val)
                  /\ passes.log[i].write.dst = 1

BuffersWrittenBy == {<<passes.run[p].e, passes.run[p].u>> : p \in {q \in PassIds : passes.run[q].op = "buffer_write"}}

(* the last element of a non-empty set of log positions *)
Latest(S) == CHOOSE i \in S : \A j \in S : j <= i

(* C29: when a producer changes a descriptor or a tracked value while a    *)
(* pass of create_buffers or buffer_write is between reading the value and *)
(* clearing the flag, then once the passes have ended either the flag is   *)
(* still set, or the buffer was last created from the descriptor's latest  *)
(* value and the bytes last written are those of the latest tracked value. *)
C29_NoLostChange ==
    (AllDone /\ ~panicked) =>
        /\ \A c \in CreatedBy :
              \/ get_changed(world[c[1]][Usage(c[2], "BufferDescriptor")])
              \/ /\ Creations(c[1], c[2]) # {}
                 /\ passes.log[Latest(Creations(c[1], c[2]))].desc
                        = world[c[1]][Usage(c[2], "BufferDescriptor")].val
        /\ \A c \in BuffersWrittenBy :
              \/ get_changed(world[c[1]][DataKey])
              \/ /\ QueueWrites(c[1], c[2]) # {}
                 /\ passes.log[Latest(QueueWrites(c[1], c[2]))].write.bytes
                        = to_bytes(world[c[1]][DataKey].val)

(* C25: at every write texture_write queues, the extent taken from the     *)
(* indirectly referenced texture descriptor is the extent the Ready        *)
(* texture written to was created with, whatever descriptor changes,       *)
(* create_textures runs and texture_write runs came before.                *)
C25_ExtentMatchesTexture ==
    (last.op = "texture_write") =>
        \A call \in last.writes : call.extent = call.texture.size

(* the belt cells of usage u that are Pending in world w *)
PendingBelts(w, u) ==
    {e \in Entities : Has(w, e, StagingBeltKey(u)) /\ is_pending(w[e][StagingBeltKey(u)].staging_belt)}

(* C27: with one manager, a create_staging_belt_thread_local run makes one *)
(* create_staging_belt call for each belt cell it finds Pending and none   *)
(* for a Ready one; a Ready belt cell keeps its id in every step, no other *)
(* step creates a belt, and the id a Ready belt cell holds is always a key *)
(* of the manager's map.                                                   *)
C27_BeltCreatedOnce ==
    [][/\ \A e \in Entities, u \in Usages :
            Has(world, e, StagingBeltKey(u)) =>
                LET cell == world[e][StagingBeltKey(u)].staging_belt
                    next == world'[e][StagingBeltKey(u)].staging_belt
                IN  /\ Has(world', e, StagingBeltKey(u))
                    /\ is_ready(cell) => (cell.v \in DOMAIN manager /\ next = cell)
                    /\ is_ready(next) => next.v \in DOMAIN manager'
                    /\ is_pending(cell) =>
                          IF last'.op = "create_staging_belt_thread_local" /\ last'.u = u
                          THEN is_ready(next) /\ next.v \notin DOMAIN manager
                          ELSE next = cell
       /\ IF last'.op = "create_staging_belt_thread_local"
          THEN /\ last'.calls = Cardinality(PendingBelts(world, last'.u))
               /\ DOMAIN manager \subseteq DOMAIN manager'
               /\ Cardinality(DOMAIN manager' \ DOMAIN manager) = last'.calls
          ELSE DOMAIN manager' = DOMAIN manager]_vars

(* a second run on a belt cell an earlier run made Ready: no call, and the *)
(* id it holds is a key of the map                                         *)
C27_Witness ==
    /\ last.op = "create_staging_belt_thread_local"
    /\ last.calls = 0
    /\ id_head = 1
    /\ \E e \in Entities :
          /\ Has(last.pre, e, StagingBeltKey(last.u))
          /\ is_ready(last.pre[e][StagingBeltKey(last.u)].staging_belt)
          /\ world[e][StagingBeltKey(last.u)].staging_belt.v \in DOMAIN manager

(* in world w, entity e matches the staged write query of usage u, its     *)
(* indirect components resolve and its value is dirty, but the belt or the *)
(* buffer they name is not Ready                                           *)
StagedDeferredIn(w, e, u) ==
    /\ Has(w, e, StagingBeltWriteKey(u))
    /\ Has(w, e, DataKey)
    /\ Has(w, e, Indirect(StagingBeltKey(u)))
    /\ Has(w, e, Indirect(StagingBeltChangedKey(u)))
    /\ Has(w, e, Indirect(Usage(u, "Buffer")))
    /\ Has(w, e, Indirect(CommandBuffersKey))
    /\ Has(w, TargetOf(w, e, StagingBeltKey(u)), StagingBeltKey(u))
    /\ Has(w, TargetOf(w, e, StagingBeltChangedKey(u)), StagingBeltChangedKey(u))
    /\ Has(w, TargetOf(w, e, Usage(u, "Buffer")), Usage(u, "Buffer"))
    /\ Has(w, TargetOf(w, e, CommandBuffersKey), CommandBuffersKey)
    /\ get_changed(w[e][DataKey])
    /\ ~StagedDueIn(w, e, u)

(* C28: in one run of staging_belt_write_thread_local over several         *)
(* entities (with a Device, without panic), an entity whose belt or target *)
(* buffer is not Ready gets no write and keeps its data flag, and every    *)
(* other entity whose value is dirty and whose belt and buffer are Ready   *)
(* is written in that run, whatever the order of iteration.                *)
C28_DeferredAbsorbedLocally ==
    (/\ last.op = "staging_belt_write_thread_local"
     /\ "Device" \in singletons
     /\ ~last.panic
     /\ \E d \in Entities : StagedDeferredIn(last.pre, d, last.u)) =>
        \A e \in Entities :
            /\ StagedDeferredIn(last.pre, e, last.u) =>
                  /\ \A c \in last.writes : c.src # e
                  /\ world[e][DataKey] = last.pre[e][DataKey]
            /\ StagedDueIn(last.pre, e, last.u) =>
                  /\ \E c \in last.writes : c.src = e
                  /\ ~get_changed(world[e][DataKey])

----------------------------------------------------------------------------
(* Frames of a texture and a view of it: between two frames the producers  *)
(* change the descriptors; a frame runs create_textures and then           *)
(* create_texture_views.  The widths include two that are not 0, so that a *)
(* texture that replaces another differs from it.                          *)

Widths == 0..(MaxDim + 1)

BetweenFrames ==
    last.op \in {"init", "resize_texture", "mutate_descriptor", "create_texture_views"}

ViewFrameInit ==
    /\ \E w \in Widths : world = TextureViewWorld(w, 1)
    /\ singletons = AllSingletons
    /\ panicked = FALSE
    /\ manager = [id \in {} |-> NewStagingBelt(0)]
    /\ id_head = 0
    /\ callers = NoCallers
    /\ passes = NoPasses
    /\ last = InitRun(world)

ViewFrameNext ==
    \/ BetweenFrames /\ \E e \in Entities, w \in Widths : \E k \in Keys(e) : resize_texture(e, k, w)
    \/ BetweenFrames /\ \E e \in Entities, v \in Vals : \E k \in Keys(e) : mutate_descriptor(e, k, v)
    \/ BetweenFrames /\ \E e \in Entities, u \in Usages : create_textures(e, u)
    \/ last.op = "create_textures" /\ \E e \in Entities, u \in Usages : create_texture_views(e, u)

ViewFrameSpec == ViewFrameInit /\ [][ViewFrameNext]_vars

(* C30: at the end of a frame (create_textures, then create_texture_views) *)
(* a Ready view cell was created from the texture its source texture cell  *)
(* holds at that moment, whatever changes of the texture descriptor and of *)
(* the view descriptor came before.                                        *)
C30_ViewOfCurrentTexture ==
    (last.op = "create_texture_views" /\ ~last.panic /\ is_ready(LastCell(world))) =>
        /\ is_ready(LastSourceTexture(world))
        /\ LastCell(world).v.of = LastSourceTexture(world).v

(***************************************************************************)
(* Window surfaces: creation, reconfiguration and presentation.            *)
(***************************************************************************)

(* C31: a create_window_surfaces run makes a creation call only when the   *)
(* window cell is Ready and the surface cell is Pending; a run that        *)
(* completes a creation leaves the surface configuration's width and       *)
(* height equal to the window's inner size and the surface cell Ready; a   *)
(* run on a Ready surface makes no creation call and changes neither the   *)
(* cell nor the configuration, and a run that creates nothing changes      *)
(* nothing.                                                                *)
C31_SurfaceCreatedOnce ==
    (last.op = "create_window_surfaces") =>
        /\ last.calls = 1 =>
              /\ is_ready(last.pre[last.e][WindowKey])
              /\ is_pending(last.pre[last.e][SurfaceKey])
        /\ (last.calls = 1 /\ ~last.panic) =>
              /\ world[last.e][SurfaceConfigurationKey].val = inner_size(last.pre, last.e)
              /\ is_ready(world[last.e][SurfaceKey])
        /\ last.calls = 0 => world = last.pre
        /\ is_ready(last.pre[last.e][SurfaceKey]) => (last.calls = 0 /\ world = last.pre)
        /\ ~is_ready(last.pre[last.e][WindowKey]) => last.calls = 0

(* a run on a Ready surface right after the run that created it, the       *)
(* window's size having differed from the assembled configuration          *)
C31_Witness ==
    /\ last.op = "create_window_surfaces"
    /\ last.rep.is
    /\ last.rep.calls = 1
    /\ last.rep.pre[last.e][SurfaceConfigurationKey].val # inner_size(last.rep.pre, last.e)
    /\ is_ready(last.pre[last.e][SurfaceKey])
    /\ last.calls = 0
    /\ world[last.e][SurfaceConfigurationKey].val = inner_size(world, last.e)

(* Frames of a window surface: between two frames the window is created or *)
(* resized; a frame runs create_window_surfaces, surface_size,             *)
(* reconfigure_surfaces and reset_surface_config_changed in that order,    *)
(* and the windowing side then clears the flag of the window size.         *)
BetweenSurfaceFrames ==
    last.op \in {"init", "window_created", "window_resized", "reset_resize_window"}

SurfaceFrameInit ==
    /\ world = SurfaceSizeWorld
    /\ singletons = AllSingletons
    /\ panicked = FALSE
    /\ manager = [id \in {} |-> NewStagingBelt(0)]
    /\ id_head = 0
    /\ callers = NoCallers
    /\ passes = NoPasses
    /\ last = InitRun(world)

SurfaceFrameNext ==
    \/ BetweenSurfaceFrames /\ \E e \in Entities : window_created(e)
    \/ BetweenSurfaceFrames
       /\ \E e \in Entities, w \in WindowDims, h \in WindowDims : window_resized(e, w, h)
    \/ BetweenSurfaceFrames
       /\ \E e \in Entities, compatible \in BOOLEAN : create_window_surfaces(e, compatible)
    \/ last.op = "create_window_surfaces" /\ \E e \in Entities : surface_size(e)
    \/ last.op = "surface_size" /\ \E e \in Entities : reconfigure_surfaces(e)
    \/ last.op = "reconfigure_surfaces" /\ \E e \in Entities : reset_surface_config_changed(e)
    \/ last.op = "reset_surface_config_changed" /\ \E e \in Entities : reset_resize_window(e)

SurfaceFrameSpec == SurfaceFrameInit /\ [][SurfaceFrameNext]_vars

(* the configure calls reconfigure_surfaces makes on entity e in world w *)
Reconfigures(w, e) ==
    IF /\ is_ready(w[e][SurfaceKey])
       /\ get_changed(w[e][SurfaceConfigurationKey])
       /\ w[e][SurfaceConfigurationKey].val.width > 0
       /\ w[e][SurfaceConfigurationKey].val.height > 0
    THEN {[configure |-> w[e][SurfaceConfigurationKey].val]}
    ELSE {}

PresentTakes ==
    (last'.op = "surface_texture_present") =>
        /\ IF world[last'.e][SurfaceTextureKey].val # "None"
           THEN /\ last'.writes = {[present |-> world[last'.e][SurfaceTextureKey].val]}
                /\ world' = [world EXCEPT ![last'.e][SurfaceTextureKey] = Changed("None", TRUE)]
           ELSE /\ last'.writes = {}
                /\ world' = world
        /\ (last.op = "surface_texture_present" /\ last.e = last'.e) => last'.writes = {}

(* a surface_texture_view_drop run right after a surface_texture_present   *)
(* run on the same entity                                                  *)
DropAfterPresent ==
    /\ last.op = "surface_texture_present"
    /\ last'.op = "surface_texture_view_drop"
    /\ last'.e = last.e
    /\ Has(world, last.e, RenderAttachmentTextureView)

(* C33 as stated: surface_texture_present takes and presents the stored    *)
(* texture and sets the flag, and does nothing when none is stored; after  *)
(* surface_texture_present followed by surface_texture_view_drop the       *)
(* stored texture is None, the render attachment view is Dropped and the   *)
(* flag is clear.                                                          *)
C33_PresentThenDrop ==
    [][/\ PresentTakes
       /\ DropAfterPresent =>
             /\ world'[last.e][SurfaceTextureKey] = Changed("None", FALSE)
             /\ world'[last.e][RenderAttachmentTextureView] = Dropped]_vars

(* C33 amended: as stated, except that the view is Dropped when a texture  *)
(* had been acquired; on a surface that never acquired one the two runs do *)
(* nothing and the view stays Pending.                                     *)
C33_PresentThenDropAcquired ==
    [][/\ PresentTakes
       /\ DropAfterPresent =>
             /\ world'[last.e][SurfaceTextureKey] = Changed("None", FALSE)
             /\ last.writes # {} => world'[last.e][RenderAttachmentTextureView] = Dropped
             /\ world'[last.e][RenderAttachmentTextureView] # Dropped =>
                   /\ is_pending(world'[last.e][RenderAttachmentTextureView])
                   /\ last.writes = {}
                   /\ world' = last.pre]_vars

(* a run that presented the texture a Ready view was made from *)
C33_Witness ==
    /\ last.op = "surface_texture_present"
    /\ last.writes = {[present |-> "Some"]}
    /\ is_ready(last.pre[last.e][RenderAttachmentTextureView])
    /\ world[last.e][SurfaceTextureKey] = Changed("None", TRUE)

====
